---------------------------- MODULE Spec2Model ----------------------------
(***************************************************************************)
(* newsgoat: the task scheduler (package tasks: DefaultManager and its     *)
(* workers), the feed fetcher (feeds.Manager.RefreshFeed), the feed        *)
(* refresh handler that joins them, and the refresh orchestrator of the    *)
(* user interface (ui.Model.Update), as state machines.                    *)
(*                                                                         *)
(* Scheduler.  One step of the model is one critical section of            *)
(* m.mutex, one channel operation, or one handler return.  AddTask is      *)
(* called from the single UI goroutine with a task that                    *)
(* CreateFeedRefreshTask just built (empty ID), so every submission is a   *)
(* new Task object with a new uuid; ids are handed out in order.  run()    *)
(* starts the manager once: the client of the model calls Start on a new   *)
(* or a running manager, never on a stopped one (its queue is closed for   *)
(* good).  A Go panic ends the process: no action is enabled once          *)
(* panicked is set.                                                        *)
(*                                                                         *)
(* Fetcher.  One step is one critical section of m.dbMutex, the cache      *)
(* control check with its reading of the clock, or client.Do with the      *)
(* examination of the response that follows it.  The origin answers a      *)
(* request with any response of Responses.  The writes of the table feeds  *)
(* succeed; an UpsertItem may fail.  Time is in seconds.                   *)
(*                                                                         *)
(* Orchestrator.  One step is one call of Model.Update with the message    *)
(* of a command that has finished; commands run concurrently and their     *)
(* messages arrive in any order.                                           *)
(***************************************************************************)
EXTENDS Naturals, Integers, Sequences, FiniteSets, TLC

\* ------------------------------------------------------------------ bounds

\* Number of AddTask calls the client makes.
MaxTasks == 2

\* Capacity of taskQueue; stands for the 100 of NewManager.
QueueCap == 1

\* Capacity of the events channel; stands for the 100 of NewManager.
EventCap == 1

\* The maxWorkers given to NewManager (cfg.ReloadConcurrency).
maxWorkers == 1

\* The clock of the feed fetcher runs from 0 to MaxTime seconds.
MaxTime == 1

\* The origin's Cache-Control max-age is between 1 and MaxAge seconds.
MaxAge == 1

\* Model.maxConcurrency, cfg.ReloadConcurrency.
maxConcurrency == 2

\* The feeds of a refresh-all are at most this many.
MaxFeeds == 4

TaskIds == 1..MaxTasks

WorkerIds == 1..maxWorkers

\* ------------------------------------------------------- types.go constants

TaskTypeFeedRefresh == "feed_refresh"

TaskStatusPending == "pending"

TaskStatusRunning == "running"

TaskStatusCompleted == "completed"

TaskStatusFailed == "failed"

TaskEventStarted == "task_started"

TaskEventCompleted == "task_completed"

TaskEventFailed == "task_failed"

TaskTypes == {TaskTypeFeedRefresh}

\* The handler run() registers, and the absent map entry.
FeedRefreshHandler == "FeedRefreshHandler"

NoHandler == "none"

\* Error texts.
ErrAlreadyRunning == "task manager is already running"

ErrNotRunning == "task manager is not running"

ErrQueueFull == "task queue is full"

ErrTaskNotFound == "task not found"

ErrCannotRemoveRunning == "cannot remove running task"

ErrHandlerExists == "handler already exists"

ErrNoHandlerFound == "no handler found for task type"

ErrExecute == "feed refresh failed"

VARIABLES
    running,       \* m.running
    ctxDone,       \* m.ctx has been cancelled
    queueClosed,   \* close(m.taskQueue) has happened
    eventsClosed,  \* close(m.events) has happened
    closer,        \* the goroutine Stop spawns: "none", "waiting", "done"
    panicked,      \* "" or the Go panic the process died of
    tasks,         \* m.tasks: the ids in the task table
    taskObj,       \* the Task objects created so far, by id: Status, Error
    taskQueue,     \* m.taskQueue: the ids buffered in the channel
    handlers,      \* m.handlers
    events,        \* m.events: the events buffered in the channel
    workers,       \* the worker goroutines: pc, task, handler, err
    accepted,      \* history: ids AddTask put in the queue
    published,     \* history: <<type, id>> of the events placed in m.events
    dropped,       \* history: <<type, id>> of the events publishEvent dropped
    observed,      \* history: per id, the events the subscriber received
    runningAtStop, \* history: the ids that were running when Stop was called
    registered,    \* history: <<handler, returned error>> of RegisterHandler calls
    stops,         \* history: the values Stop returned
    now,           \* time.Now(), in seconds
    feeds,         \* table feeds, by id
    items,         \* table items: the set of its rows
    calls,         \* the calls of RefreshFeed, by caller: pc and locals
    model,         \* ui.Model: pendingFeeds, refreshingFeeds, and the
                   \* commands whose messages Update has not received yet
    urlsFile       \* the URLs file: its lines, each a sequence of characters

managerVars == <<running, ctxDone, queueClosed, eventsClosed, closer, panicked,
                 tasks, taskObj, taskQueue, handlers, events, workers,
                 accepted, published, dropped, observed, runningAtStop,
                   registered, stops>>

feedVars == <<now, feeds, items, calls>>

vars == <<managerVars, feedVars, model, urlsFile>>

lifecycleVars == <<running, ctxDone, queueClosed, closer>>

historyVars == <<accepted, published, dropped, observed, runningAtStop,
                   registered, stops>>

\* ----------------------------------------------------------------- helpers

\* The run-time panics of channel operations.
PanicSendOnClosedQueue == "send on closed channel: taskQueue"

PanicSendOnClosedEvents == "send on closed channel: events"

PanicCloseOfClosedQueue == "close of closed channel: taskQueue"

PanicCloseOfClosedEvents == "close of closed channel: events"

Alive == panicked = ""

Created == DOMAIN taskObj

Status(id) == taskObj[id].Status

Terminal(id) ==
    /\ id \in Created
    /\ Status(id) \in {TaskStatusCompleted, TaskStatusFailed}

IdleWorker == [pc |-> "idle", task |-> 0, handler |-> NoHandler, err |-> ""]

NoWorker == [pc |-> "none", task |-> 0, handler |-> NoHandler, err |-> ""]

\* wg: the workers that called wg.Add and have not yet run wg.Done.
wg == Cardinality({w \in WorkerIds : workers[w].pc \notin {"none", "exited"}})

TaskEvent(type, id, status, error) ==
    [Type |-> type, TaskID |-> id, TaskType |-> TaskTypeFeedRefresh,
     Status |-> status, Error |-> error]

\* Mutant: a blocking send, m.events <- event without the default case.
publishEventBlocking(event) ==
    IF eventsClosed
    THEN /\ panicked' = PanicSendOnClosedEvents
         /\ UNCHANGED <<events, published, dropped>>
    ELSE /\ Len(events) < EventCap
         /\ events' = Append(events, event)
         /\ published' = published \cup {<<event.Type, event.TaskID>>}
         /\ UNCHANGED <<panicked, dropped>>

\* publishEvent: a non-blocking send; a send on a closed channel panics.
publishEvent(event) ==
    IF eventsClosed
    THEN /\ panicked' = PanicSendOnClosedEvents
         /\ UNCHANGED <<events, published, dropped>>
    ELSE IF Len(events) < EventCap
    THEN /\ events' = Append(events, event)
         /\ published' = published \cup {<<event.Type, event.TaskID>>}
         /\ UNCHANGED <<panicked, dropped>>
    ELSE /\ dropped' = dropped \cup {<<event.Type, event.TaskID>>}
         /\ UNCHANGED <<panicked, events, published>>

\* ======================================================== the feed fetcher
\* internal/feeds: Manager.RefreshFeed over the tables feeds and items.

\* sql.NullTime, sql.NullInt64, sql.NullString: a value and its Valid flag.
NullTime(t) == [Time |-> t, Valid |-> TRUE]

NoTime == [Time |-> 0, Valid |-> FALSE]

NullInt64(n) == [Int64 |-> n, Valid |-> TRUE]

NoInt64 == [Int64 |-> 0, Valid |-> FALSE]

NullString(s) == [String |-> s, Valid |-> TRUE]

NoString == [String |-> "", Valid |-> FALSE]

\* An error value is the sequence of the parts of its text; nil is <<>>.
Nil == <<>>

\* The NULL of a column that holds the text of an error.
NoText == [String |-> Nil, Valid |-> FALSE]

\* The error of client.Do: the request did not get a response.
ErrTransport == <<"Get", 0, "connection refused">>

\* The error of parser.Parse.
ErrParse == <<"Failed to detect feed type", 0, "">>

\* sql.ErrNoRows, of GetFeed on an id the table does not hold.
ErrNoRows == <<"sql: no rows in result set", 0, "">>

\* An error of queries.UpdateFeed: SQLite could not write the row.
ErrUpdateFeed == <<"database is locked", 0, "">>

\* http.StatusText
StatusText(code) ==
    CASE code = 200 -> "OK"
      [] code = 203 -> "Non-Authoritative Information"
      [] code = 304 -> "Not Modified"
      [] code = 404 -> "Not Found"
      [] code = 500 -> "Internal Server Error"
      [] OTHER -> ""

\* fmt.Errorf("HTTP %d: %s", resp.StatusCode, http.StatusText(...))
ErrHTTP(code) == <<"HTTP", code, StatusText(code)>>

\* The feed the program refreshes, and an id the table does not hold.
FeedIds == {1}

RequestedIds == {1, 2}

FeedURL == "https://example.org/feed.xml"

\* The goroutines that call RefreshFeed: the handler of a feed refresh
\* task and the command of the user interface.
Callers == {"task", "ui"}

\* The caller of a refresh that no other refresh overlaps.
SingleCaller == {"task"}

\* A gofeed.Item, as far as RefreshFeed reads it; media is the value of
\* the extension media:group/media:description, "" when there is none.
Item(guid, title, description, content, link, publishedParsed, media) ==
    [GUID |-> guid, Title |-> title, Description |-> description,
     Content |-> content, Link |-> link, PublishedParsed |-> publishedParsed,
     Media |-> media]

\* The documents the origin serves: a feed, and a later edition of it.
Docs ==
    << [Title |-> "News", Description |-> "first edition",
        Items |-> << Item("g1", "one", "summary", "", "l1", NoTime, "") >>],
       [Title |-> "News 2", Description |-> "second edition",
        Items |-> << Item("g1", "one, edited", "summary", "body", "l1",
                          NullTime(0), ""),
                     Item("g2", "video", "", "", "l2", NoTime, "clip") >>] >>

\* A body that is no feed.
Malformed == 0

Bodies == {Malformed} \cup DOMAIN Docs

\* parser.Parse
Parse(body) ==
    IF body = Malformed
    THEN [feed |-> [Title |-> "", Description |-> "", Items |-> <<>>],
          err |-> ErrParse]
    ELSE [feed |-> Docs[body], err |-> Nil]

\* A Cache-Control header is the sequence of its comma-separated parts; a
\* part is a directive name and, for max-age=, the text after the equals
\* sign: a number, or text ParseInt rejects.
Directive(name, val, numeric) ==
    [name |-> name, val |-> val, numeric |-> numeric]

RECURSIVE parseCacheControlFrom(_, _)
parseCacheControlFrom(parts, i) ==
    IF i > Len(parts)
    THEN [maxAge |-> 0, hasMaxAge |-> FALSE]
    ELSE IF parts[i].name = "max-age=" /\ parts[i].numeric
    THEN [maxAge |-> parts[i].val, hasMaxAge |-> TRUE]
    ELSE parseCacheControlFrom(parts, i + 1)

parseCacheControl(cacheControl) == parseCacheControlFrom(cacheControl, 1)

\* The headers and bodies the origin answers with.
ETags == {"", "etag-1"}

LastModifieds == {"", "Mon, 01 Jan 2024 00:00:00 GMT"}

CacheControls ==
    {<<>>, <<Directive("no-cache", 0, FALSE)>>}
    \cup {<<Directive("max-age=", 0, FALSE), Directive("public", 0, FALSE),
            Directive("max-age=", a, TRUE)>> : a \in 1..MaxAge}

\* An http.Response, or the error client.Do returns in its place.
Response(err, status, etag, lastModified, cacheControl, body) ==
    [err |-> err, StatusCode |-> status, ETag |-> etag,
     LastModified |-> lastModified, CacheControl |-> cacheControl,
     Body |-> body]

Responses ==
    {Response(ErrTransport, 0, "", "", <<>>, Malformed)}
    \cup {Response(Nil, s, "", "", <<>>, Malformed) : s \in {304, 500}}
    \cup {Response(Nil, s, e, lm, cc, b) :
              s \in {200, 203}, e \in ETags, lm \in LastModifieds,
              cc \in CacheControls, b \in Bodies}

\* A row of table feeds (database.Feed).
Feed(id, url, title, description, lastUpdated) ==
    [ID |-> id, Url |-> url, Title |-> title, Description |-> description,
     LastUpdated |-> lastUpdated, LastError |-> NoText,
     LastErrorTime |-> NoTime, Etag |-> NoString, LastModified |-> NoString,
     CacheControlMaxAge |-> NoInt64]

\* The zero database.Feed.
NoFeed == Feed(0, "", "", "", NoTime)

\* The headers conditionalRequestTransport adds; "" is a header not set.
Request(sent, ifNoneMatch, ifModifiedSince) ==
    [sent |-> sent, IfNoneMatch |-> ifNoneMatch,
     IfModifiedSince |-> ifModifiedSince]

NoRequest == Request(FALSE, "", "")

\* A call of RefreshFeed that has not begun: its locals are zero.
IdleCall ==
    [pc |-> "idle", feedID |-> 0, feed |-> NoFeed, req |-> NoRequest,
     StatusCode |-> 0, etag |-> NoString, lastModified |-> NoString,
     cacheControlMaxAge |-> NoInt64, parsedFeed |-> Malformed, i |-> 0,
     err |-> Nil]

\* The call has returned err: what is left of it is the result and the
\* request it sent.
Returned(call, err) ==
    [IdleCall EXCEPT !.pc = "returned", !.feedID = call.feedID,
                     !.req = call.req, !.err = err]

\* The row CreateFeed inserts for AddFeedWithoutFetching.
AddFeedWithoutFetching(id, url) == Feed(id, url, url, "", NoTime)

\* The row CreateFeed inserts for AddFeed, which parsed the document.
AddFeed(id, url, t) ==
    Feed(id, url, Docs[1].Title, Docs[1].Description, NullTime(t))

\* GetFeedByURL
GetFeedByURL(url) == {id \in DOMAIN feeds : feeds[id].Url = url}

\* conditionalRequestTransport.RoundTrip: the headers of the request.
\* Mutant: the transport sets the User-Agent only.
RoundTripUnconditional(url) == Request(TRUE, "", "")

RoundTrip(url) ==
    IF GetFeedByURL(url) = {}
    THEN Request(TRUE, "", "")
    ELSE LET feed == feeds[CHOOSE id \in GetFeedByURL(url) : TRUE] IN
         Request(TRUE,
                 IF feed.Etag.Valid /\ feed.Etag.String # ""
                 THEN feed.Etag.String ELSE "",
                 IF feed.LastModified.Valid /\ feed.LastModified.String # ""
                 THEN feed.LastModified.String ELSE "")

\* UpdateFeed of queries.sql.
UpdateFeed(id, title, description, lastUpdated, etag, lastModified, maxAge) ==
    feeds' = [feeds EXCEPT ![id] =
                 [@ EXCEPT !.Title = title, !.Description = description,
                           !.LastUpdated = lastUpdated, !.Etag = etag,
                           !.LastModified = lastModified,
                           !.CacheControlMaxAge = maxAge]]

\* Mutant: the statement writes last_error and leaves last_error_time.
UpdateFeedErrorTextOnly(id, lastError, lastErrorTime) ==
    feeds' = [feeds EXCEPT ![id] = [@ EXCEPT !.LastError = lastError]]

\* UpdateFeedError of queries.sql.
UpdateFeedError(id, lastError, lastErrorTime) ==
    feeds' = [feeds EXCEPT ![id] =
                 [@ EXCEPT !.LastError = lastError,
                           !.LastErrorTime = lastErrorTime]]

\* Mutant: UpsertItem without ON CONFLICT, every ingest inserts a row.
UpsertItemRowInserts(feedID, guid, title, description, content, link, pub) ==
    [ID |-> Cardinality(items) + 1, FeedID |-> feedID, Guid |-> guid,
     Title |-> title, Description |-> description, Content |-> content,
     Link |-> link, Published |-> pub]

\* The row UpsertItem leaves for (feedID, guid): a new row with the next
\* id, or the row that was there with the new fields.
UpsertItemRow(feedID, guid, title, description, content, link, pub) ==
    LET old == {r \in items : r.FeedID = feedID /\ r.Guid = guid}
        id  == IF old = {}
               THEN Cardinality(items) + 1
               ELSE (CHOOSE r \in old : TRUE).ID
    IN  [ID |-> id, FeedID |-> feedID, Guid |-> guid, Title |-> title,
         Description |-> description, Content |-> content, Link |-> link,
         Published |-> pub]

\* -------------------------------------------------------------------- Init

\* NewManager
\* ui.NewModel: nothing is pending, nothing is refreshing, no command
\* runs.
NewModel ==
    [pendingFeeds |-> <<>>, refreshingFeeds |-> {}, cmds |-> {},
     refreshing |-> FALSE, allFeeds |-> 0, firstAutoReload |-> TRUE,
     pendingStartupReload |-> FALSE,
     config |-> [AutoReload |-> FALSE, SuppressFirstReload |-> FALSE],
     \* the feeds the loop of the running handler has not reached yet, and
     \* the handler that runs ("" when Update is not in such a loop)
     submit |-> <<>>, after |-> "",
     \* Data["feed_id"] of the tasks Update created, by task
     taskFeed |-> <<>>,
     \* the tea.Tick commands of waitForReloadTimer that have not fired
     timers |-> 0]

InitManager ==
    /\ running = FALSE
    /\ ctxDone = FALSE
    /\ queueClosed = FALSE
    /\ eventsClosed = FALSE
    /\ closer = "none"
    /\ panicked = ""
    /\ tasks = {}
    /\ taskObj = <<>>
    /\ taskQueue = <<>>
    /\ handlers = [t \in TaskTypes |-> NoHandler]
    /\ events = <<>>
    /\ workers = [w \in WorkerIds |-> NoWorker]
    /\ accepted = {}
    /\ published = {}
    /\ dropped = {}
    /\ observed = [id \in TaskIds |-> [started |-> 0, terminal |-> 0]]
    /\ runningAtStop = {}
    /\ registered = <<>>
    /\ stops = <<>>

\* The database holds one feed, added by AddFeedWithoutFetching or by
\* AddFeed, and no item; no refresh is in progress.
InitFeeds ==
    /\ now = 0
    /\ items = {}
    /\ model = NewModel
    /\ urlsFile = <<>>

\* The task manager of a program whose database holds no feed yet.
Init ==
    /\ InitManager
    /\ InitFeeds
    /\ feeds = [id \in {} |-> NoFeed]
    /\ calls = [c \in {} |-> IdleCall]

InitFeed ==
    /\ InitManager
    /\ InitFeeds
    /\ feeds \in {[id \in FeedIds |-> AddFeedWithoutFetching(id, FeedURL)],
                  [id \in FeedIds |-> AddFeed(id, FeedURL, 0)]}
    /\ calls = [c \in SingleCaller |-> IdleCall]

\* ------------------------------------------------------------- the manager
\* Each API function is an action (its effect) and an operator (the error it
\* returns when called in the current state, "" for nil).

StartErr == IF running THEN ErrAlreadyRunning ELSE ""

Start ==
    /\ Alive
    /\ UNCHANGED <<feedVars, model, urlsFile>>
    /\ IF running
       THEN UNCHANGED <<running, ctxDone, workers>>
       ELSE /\ ctxDone' = FALSE
            /\ running' = TRUE
            /\ workers' = [w \in WorkerIds |-> IdleWorker]
    /\ UNCHANGED <<queueClosed, eventsClosed, closer, panicked, tasks, taskObj,
                   taskQueue, handlers, events, historyVars>>

StopErr == IF ~running THEN ErrNotRunning ELSE ""

\* Mutant: Stop without the check of m.running.
StopCallUnchecked ==
    /\ Alive
    /\ UNCHANGED <<feedVars, model, urlsFile>>
    /\ IF queueClosed
       THEN /\ ctxDone' = TRUE
            /\ panicked' = PanicCloseOfClosedQueue
            /\ UNCHANGED <<running, queueClosed, closer>>
       ELSE /\ ctxDone' = TRUE
            /\ queueClosed' = TRUE
            /\ closer' = "waiting"
            /\ running' = FALSE
            /\ UNCHANGED panicked
    /\ UNCHANGED <<eventsClosed, tasks, taskObj, taskQueue, handlers, events,
                   workers, accepted, published, dropped, observed,
                   registered>>

\* Stop, but for the history variable runningAtStop.
StopCall ==
    /\ Alive
    /\ UNCHANGED <<feedVars, model, urlsFile>>
    /\ IF ~running
       THEN UNCHANGED <<lifecycleVars, panicked>>
       ELSE IF queueClosed
       THEN \* close of a closed channel
            /\ ctxDone' = TRUE
            /\ panicked' = PanicCloseOfClosedQueue
            /\ UNCHANGED <<running, queueClosed, closer>>
       ELSE /\ ctxDone' = TRUE
            /\ queueClosed' = TRUE
            /\ closer' = "waiting"
            /\ running' = FALSE
            /\ UNCHANGED panicked
    /\ UNCHANGED <<eventsClosed, tasks, taskObj, taskQueue, handlers, events,
                   workers, accepted, published, dropped, observed,
                   registered>>

Stop == StopCall /\ UNCHANGED <<runningAtStop, stops>>

\* Stop, with the tasks that are running at the call recorded.
StopRecorded ==
    /\ StopCall
    /\ runningAtStop' =
           IF running
           THEN {id \in Created : Status(id) = TaskStatusRunning}
           ELSE runningAtStop
    /\ UNCHANGED stops

\* Mutant: Stop closes the stream without waiting for the workers.
CloseEventsNoWait ==
    /\ Alive
    /\ UNCHANGED <<feedVars, model, urlsFile>>
    /\ closer = "waiting"
    /\ closer' = "done"
    /\ IF eventsClosed
       THEN panicked' = PanicCloseOfClosedEvents /\ UNCHANGED eventsClosed
       ELSE eventsClosed' = TRUE /\ UNCHANGED panicked
    /\ UNCHANGED <<running, ctxDone, queueClosed, tasks, taskObj, taskQueue,
                   handlers, events, workers, historyVars>>

\* The goroutine of Stop: m.wg.Wait(); close(m.events).
CloseEvents ==
    /\ Alive
    /\ UNCHANGED <<feedVars, model, urlsFile>>
    /\ closer = "waiting"
    /\ wg = 0
    /\ closer' = "done"
    /\ IF eventsClosed
       THEN panicked' = PanicCloseOfClosedEvents /\ UNCHANGED eventsClosed
       ELSE eventsClosed' = TRUE /\ UNCHANGED panicked
    /\ UNCHANGED <<running, ctxDone, queueClosed, tasks, taskObj, taskQueue,
                   handlers, events, workers, historyVars>>

\* Mutant: the queue is not bounded, the send always succeeds.
AddTaskUnbounded ==
    /\ Alive
    /\ UNCHANGED <<feedVars, model, urlsFile>>
    /\ Len(taskObj) < MaxTasks
    /\ LET id == Len(taskObj) + 1 IN
       /\ taskObj' = Append(taskObj, [Status |-> TaskStatusPending, Error |-> ""])
       /\ tasks' = tasks \cup {id}
       /\ IF queueClosed
          THEN /\ panicked' = PanicSendOnClosedQueue
               /\ UNCHANGED <<taskQueue, accepted>>
          ELSE /\ taskQueue' = Append(taskQueue, id)
               /\ accepted' = accepted \cup {id}
               /\ UNCHANGED panicked
    /\ UNCHANGED <<lifecycleVars, eventsClosed, handlers, events, workers,
                   published, dropped, observed, runningAtStop,
                   registered, stops>>

\* The select of AddTask: the send succeeds, or the default case is taken.
AddTaskErr == IF Len(taskQueue) < QueueCap THEN "" ELSE ErrQueueFull

\* AddTask with a task of CreateFeedRefreshTask: the id is a new uuid.
AddTask ==
    /\ Alive
    /\ UNCHANGED <<feedVars, model, urlsFile>>
    /\ Len(taskObj) < MaxTasks
    /\ LET id == Len(taskObj) + 1 IN
       /\ taskObj' = Append(taskObj, [Status |-> TaskStatusPending, Error |-> ""])
       /\ tasks' = tasks \cup {id}
       /\ IF queueClosed
          THEN \* a send on a closed channel
               /\ panicked' = PanicSendOnClosedQueue
               /\ UNCHANGED <<taskQueue, accepted>>
          ELSE IF Len(taskQueue) < QueueCap
          THEN /\ taskQueue' = Append(taskQueue, id)
               /\ accepted' = accepted \cup {id}
               /\ UNCHANGED panicked
          ELSE UNCHANGED <<panicked, taskQueue, accepted>>
    /\ UNCHANGED <<lifecycleVars, eventsClosed, handlers, events, workers,
                   published, dropped, observed, runningAtStop,
                   registered, stops>>

\* GetTask(id): the task and no error, or "task not found".
GetTask(id) ==
    IF id \in tasks
    THEN [task |-> taskObj[id], err |-> ""]
    ELSE [task |-> [Status |-> "", Error |-> ""], err |-> ErrTaskNotFound]

\* ListTasks(filter) with the zero filter: every task of the table.
ListTasks == tasks

RegisterHandlerErr ==
    IF handlers[TaskTypeFeedRefresh] # NoHandler THEN ErrHandlerExists ELSE ""

RegisterHandler(h) ==
    /\ Alive
    /\ UNCHANGED <<feedVars, model, urlsFile>>
    /\ IF handlers[TaskTypeFeedRefresh] # NoHandler
       THEN UNCHANGED handlers
       ELSE handlers' = [handlers EXCEPT ![TaskTypeFeedRefresh] = h]
    /\ UNCHANGED <<lifecycleVars, eventsClosed, panicked, tasks, taskObj,
                   taskQueue, events, workers, historyVars>>

\* Mutant: the status check is missing, a running task is deleted too.
RemoveTaskAnyStatus(id) ==
    /\ Alive
    /\ UNCHANGED <<feedVars, model, urlsFile>>
    /\ IF id \notin tasks
       THEN UNCHANGED tasks
       ELSE tasks' = tasks \ {id}
    /\ UNCHANGED <<lifecycleVars, eventsClosed, panicked, taskObj, taskQueue,
                   handlers, events, workers, historyVars>>

RemoveTaskErr(id) ==
    IF id \notin tasks THEN ErrTaskNotFound
    ELSE IF Status(id) = TaskStatusRunning THEN ErrCannotRemoveRunning
    ELSE ""

RemoveTask(id) ==
    /\ Alive
    /\ UNCHANGED <<feedVars, model, urlsFile>>
    /\ IF id \notin tasks
       THEN UNCHANGED tasks
       ELSE IF Status(id) = TaskStatusRunning
       THEN UNCHANGED tasks
       ELSE tasks' = tasks \ {id}
    /\ UNCHANGED <<lifecycleVars, eventsClosed, panicked, taskObj, taskQueue,
                   handlers, events, workers, historyVars>>

\* Mutant: every finished task is deleted, completed ones too.
ClearFailedTasksClearsFinished ==
    /\ Alive
    /\ UNCHANGED <<feedVars, model, urlsFile>>
    /\ tasks' = {id \in tasks : ~Terminal(id)}
    /\ UNCHANGED <<lifecycleVars, eventsClosed, panicked, taskObj, taskQueue,
                   handlers, events, workers, historyVars>>

ClearFailedTasks ==
    /\ Alive
    /\ UNCHANGED <<feedVars, model, urlsFile>>
    /\ tasks' = {id \in tasks : Status(id) # TaskStatusFailed}
    /\ UNCHANGED <<lifecycleVars, eventsClosed, panicked, taskObj, taskQueue,
                   handlers, events, workers, historyVars>>

\* ------------------------------------------------------------- the workers

\* worker.start, the select: a task is received (also from a closed queue
\* that still buffers tasks, and also when the context is done: select
\* picks among the ready cases).
WorkerReceive(w) ==
    /\ Alive
    /\ UNCHANGED <<feedVars, model, urlsFile>>
    /\ workers[w].pc = "idle"
    /\ Len(taskQueue) > 0
    /\ workers' = [workers EXCEPT ![w].pc = "setRunning",
                                  ![w].task = Head(taskQueue)]
    /\ taskQueue' = Tail(taskQueue)
    /\ UNCHANGED <<lifecycleVars, eventsClosed, panicked, tasks, taskObj,
                   handlers, events, historyVars>>

\* worker.start, the select: the context is done, or the queue is closed
\* and empty; the deferred wg.Done runs.
WorkerExit(w) ==
    /\ Alive
    /\ UNCHANGED <<feedVars, model, urlsFile>>
    /\ workers[w].pc = "idle"
    /\ ctxDone \/ (queueClosed /\ Len(taskQueue) = 0)
    /\ workers' = [workers EXCEPT ![w].pc = "exited"]
    /\ UNCHANGED <<lifecycleVars, eventsClosed, panicked, tasks, taskObj,
                   taskQueue, handlers, events, historyVars>>

\* Mutant: the worker does not mark the task running.
SetRunningSkipped(w) ==
    /\ Alive
    /\ UNCHANGED <<feedVars, model, urlsFile>>
    /\ workers[w].pc = "setRunning"
    /\ workers' = [workers EXCEPT ![w].pc = "pubStarted"]
    /\ UNCHANGED <<lifecycleVars, eventsClosed, panicked, tasks, taskObj,
                   taskQueue, handlers, events, historyVars>>

\* executeTask: task.Status = TaskStatusRunning, under the lock.
SetRunning(w) ==
    /\ Alive
    /\ UNCHANGED <<feedVars, model, urlsFile>>
    /\ workers[w].pc = "setRunning"
    /\ taskObj' = [taskObj EXCEPT ![workers[w].task].Status = TaskStatusRunning]
    /\ workers' = [workers EXCEPT ![w].pc = "pubStarted"]
    /\ UNCHANGED <<lifecycleVars, eventsClosed, panicked, tasks, taskQueue,
                   handlers, events, historyVars>>

\* executeTask: publish the started event.
PublishStarted(w) ==
    /\ Alive
    /\ UNCHANGED <<feedVars, model, urlsFile>>
    /\ workers[w].pc = "pubStarted"
    /\ publishEvent(TaskEvent(TaskEventStarted, workers[w].task,
                              TaskStatusRunning, ""))
    /\ workers' = [workers EXCEPT ![w].pc = "lookup"]
    /\ UNCHANGED <<lifecycleVars, eventsClosed, tasks, taskObj, taskQueue,
                   handlers, accepted, observed, runningAtStop,
                   registered, stops>>

\* Mutant: a missing handler is called all the same, a nil dereference.
LookupHandlerCallsNil(w) ==
    /\ Alive
    /\ UNCHANGED <<feedVars, model, urlsFile>>
    /\ workers[w].pc = "lookup"
    /\ IF handlers[TaskTypeFeedRefresh] = NoHandler
       THEN /\ panicked' = "invalid memory address or nil pointer dereference"
            /\ workers' = [workers EXCEPT ![w] = NoWorker]
       ELSE /\ workers' = [workers EXCEPT ![w].pc = "exec",
                                          ![w].handler = handlers[TaskTypeFeedRefresh]]
            /\ UNCHANGED panicked
    /\ UNCHANGED <<lifecycleVars, eventsClosed, tasks, taskObj,
                   taskQueue, handlers, events, historyVars>>

\* executeTask: handler, exists := handlers[task.Type], under the read lock.
LookupHandler(w) ==
    /\ Alive
    /\ UNCHANGED <<feedVars, model, urlsFile>>
    /\ workers[w].pc = "lookup"
    /\ IF handlers[TaskTypeFeedRefresh] = NoHandler
       THEN workers' = [workers EXCEPT ![w].pc = "complete",
                                       ![w].err = ErrNoHandlerFound]
       ELSE workers' = [workers EXCEPT ![w].pc = "exec",
                                       ![w].handler = handlers[TaskTypeFeedRefresh]]
    /\ UNCHANGED <<lifecycleVars, eventsClosed, panicked, tasks, taskObj,
                   taskQueue, handlers, events, historyVars>>

\* Mutant: a cancelled context aborts the execution: the worker returns
\* without completing the task.
HandlerReturnAborted(w) ==
    /\ Alive
    /\ UNCHANGED <<feedVars, model, urlsFile>>
    /\ workers[w].pc = "exec"
    /\ IF ctxDone
       THEN workers' = [workers EXCEPT ![w].pc = "exited"]
       ELSE \E err \in {"", ErrExecute} :
               workers' = [workers EXCEPT ![w].pc = "complete", ![w].err = err]
    /\ UNCHANGED <<lifecycleVars, eventsClosed, panicked, tasks, taskObj,
                   taskQueue, handlers, events, historyVars>>

\* executeTask: handler.Execute returns nil (err = "") or an error.
HandlerReturn(w) ==
    /\ Alive
    /\ UNCHANGED <<feedVars, model, urlsFile>>
    /\ workers[w].pc = "exec"
    /\ \E err \in {"", ErrExecute} :
         workers' = [workers EXCEPT ![w].pc = "complete", ![w].err = err]
    /\ UNCHANGED <<lifecycleVars, eventsClosed, panicked, tasks, taskObj,
                   taskQueue, handlers, events, historyVars>>

\* Mutant: the completion forgets to write the terminal status.
CompleteTaskKeepsStatus(w) ==
    /\ Alive
    /\ UNCHANGED <<feedVars, model, urlsFile>>
    /\ workers[w].pc = "complete"
    /\ workers' = [workers EXCEPT ![w].pc = "pubTerminal"]
    /\ UNCHANGED <<lifecycleVars, eventsClosed, panicked, tasks, taskObj,
                   taskQueue, handlers, events, historyVars>>

\* completeTask / completeTaskWithError: the status, under the lock.
\* Mutant: completeTask is called whatever the handler returned.
CompleteTaskAlwaysCompleted(w) ==
    /\ Alive
    /\ UNCHANGED <<feedVars, model, urlsFile>>
    /\ workers[w].pc = "complete"
    /\ taskObj' = [taskObj EXCEPT
           ![workers[w].task].Status = TaskStatusCompleted]
    /\ workers' = [workers EXCEPT ![w].pc = "pubTerminal", ![w].err = ""]
    /\ UNCHANGED <<lifecycleVars, eventsClosed, panicked, tasks, taskQueue,
                   handlers, events, historyVars>>

CompleteTask(w) ==
    /\ Alive
    /\ UNCHANGED <<feedVars, model, urlsFile>>
    /\ workers[w].pc = "complete"
    /\ IF workers[w].err = ""
       THEN taskObj' = [taskObj EXCEPT
                ![workers[w].task].Status = TaskStatusCompleted]
       ELSE taskObj' = [taskObj EXCEPT
                ![workers[w].task].Status = TaskStatusFailed,
                ![workers[w].task].Error = workers[w].err]
    /\ workers' = [workers EXCEPT ![w].pc = "pubTerminal"]
    /\ UNCHANGED <<lifecycleVars, eventsClosed, panicked, tasks, taskQueue,
                   handlers, events, historyVars>>

\* Mutant: a worker whose task failed leaves its loop.
PublishTerminalReturnsOnError(w) ==
    /\ Alive
    /\ UNCHANGED <<feedVars, model, urlsFile>>
    /\ workers[w].pc = "pubTerminal"
    /\ IF workers[w].err = ""
       THEN /\ publishEvent(TaskEvent(TaskEventCompleted, workers[w].task,
                                      TaskStatusCompleted, ""))
            /\ workers' = [workers EXCEPT ![w] = IdleWorker]
       ELSE /\ publishEvent(TaskEvent(TaskEventFailed, workers[w].task,
                                      TaskStatusFailed, workers[w].err))
            /\ workers' = [workers EXCEPT ![w].pc = "exited"]
    /\ UNCHANGED <<lifecycleVars, eventsClosed, tasks, taskObj, taskQueue,
                   handlers, accepted, observed, runningAtStop,
                   registered, stops>>

\* Mutant: a failed task is put back in the queue to be tried again.
PublishTerminalRetries(w) ==
    /\ Alive
    /\ UNCHANGED <<feedVars, model, urlsFile>>
    /\ workers[w].pc = "pubTerminal"
    /\ IF workers[w].err = ""
       THEN /\ publishEvent(TaskEvent(TaskEventCompleted, workers[w].task,
                                      TaskStatusCompleted, ""))
            /\ UNCHANGED taskQueue
       ELSE /\ publishEvent(TaskEvent(TaskEventFailed, workers[w].task,
                                      TaskStatusFailed, workers[w].err))
            /\ IF Len(taskQueue) < QueueCap /\ ~queueClosed
               THEN taskQueue' = Append(taskQueue, workers[w].task)
               ELSE UNCHANGED taskQueue
    /\ workers' = [workers EXCEPT ![w] = IdleWorker]
    /\ UNCHANGED <<lifecycleVars, eventsClosed, tasks, taskObj, handlers,
                   accepted, observed, runningAtStop,
                   registered, stops>>

\* completeTask / completeTaskWithError: publish the terminal event; the
\* worker is back at its select.
PublishTerminal(w) ==
    /\ Alive
    /\ UNCHANGED <<feedVars, model, urlsFile>>
    /\ workers[w].pc = "pubTerminal"
    /\ IF workers[w].err = ""
       THEN publishEvent(TaskEvent(TaskEventCompleted, workers[w].task,
                                   TaskStatusCompleted, ""))
       ELSE publishEvent(TaskEvent(TaskEventFailed, workers[w].task,
                                   TaskStatusFailed, workers[w].err))
    /\ workers' = [workers EXCEPT ![w] = IdleWorker]
    /\ UNCHANGED <<lifecycleVars, eventsClosed, tasks, taskObj, taskQueue,
                   handlers, accepted, observed, runningAtStop,
                   registered, stops>>

\* ---------------------------------------------------------- the subscriber

\* listenForTaskEvents: event := <-events.
Receive ==
    /\ Alive
    /\ UNCHANGED <<feedVars, model, urlsFile>>
    /\ Len(events) > 0
    /\ LET e == Head(events) IN
       observed' = [observed EXCEPT ![e.TaskID] =
           IF e.Type = TaskEventStarted
           THEN [@ EXCEPT !.started = @ + 1]
           ELSE [@ EXCEPT !.terminal = @ + 1]]
    /\ events' = Tail(events)
    /\ UNCHANGED <<lifecycleVars, eventsClosed, panicked, tasks, taskObj,
                   taskQueue, handlers, workers, accepted, published,
                   dropped, runningAtStop,
                   registered, stops>>

\* The content and the description RefreshFeed stores for a parsed item.
itemContent(item) ==
    IF item.Content = "" /\ item.Description # "" THEN item.Description
    ELSE IF item.Content = "" /\ item.Description = "" /\ item.Media # ""
    THEN item.Media
    ELSE item.Content

itemDescription(item) ==
    IF item.Content = "" /\ item.Description = "" /\ item.Media # ""
    THEN item.Media
    ELSE item.Description

\* RefreshFeed, up to GetFeed: the row is read under the read lock.
RefreshFeed(c, feedID) ==
    /\ Alive
    /\ calls[c].pc = "idle"
    /\ calls' = [calls EXCEPT ![c] =
           IF feedID \in DOMAIN feeds
           THEN [IdleCall EXCEPT !.pc = "cacheCheck", !.feedID = feedID,
                                 !.feed = feeds[feedID]]
           ELSE [IdleCall EXCEPT !.pc = "returned", !.feedID = feedID,
                                 !.err = ErrNoRows]]
    /\ UNCHANGED <<managerVars, model, urlsFile, now, feeds, items>>

\* Mutant: the expiry is last_updated, max-age is not added.
cacheExpiryAtLastUpdated(feed) == feed.LastUpdated.Time

\* cacheExpiry: last_updated plus max-age seconds.
cacheExpiry(feed) == feed.LastUpdated.Time + feed.CacheControlMaxAge.Int64

\* The cache control check: within the period the call returns nil.
CacheCheck(c) ==
    /\ Alive
    /\ calls[c].pc = "cacheCheck"
    /\ LET feed == calls[c].feed IN
       IF /\ feed.CacheControlMaxAge.Valid
          /\ feed.LastUpdated.Valid
          /\ now < cacheExpiry(feed)
       THEN calls' = [calls EXCEPT ![c] = Returned(@, Nil)]
       ELSE calls' = [calls EXCEPT ![c].pc = "do"]
    /\ UNCHANGED <<managerVars, model, urlsFile, now, feeds, items>>

\* client.Do and what follows it up to the next write of the database:
\* the transport reads the row for the conditional headers, the origin
\* answers, the status is examined, the headers and the body are parsed.
\* Mutant: every status but 200 and 304 is an error.
DoOnly200(c, resp) ==
    /\ Alive
    /\ calls[c].pc = "do"
    /\   LET req == RoundTrip(calls[c].feed.Url)
             cc == parseCacheControl(resp.CacheControl)
             parsed == Parse(resp.Body)
         IN  calls' = [calls EXCEPT ![c] =
               IF resp.err # Nil
               THEN [@ EXCEPT !.pc = "recordFeedError", !.req = req,
                              !.err = resp.err]
               ELSE IF resp.StatusCode = 304
               THEN [@ EXCEPT !.pc = "notModified", !.req = req,
                              !.StatusCode = resp.StatusCode]
               ELSE IF resp.StatusCode # 200
               THEN [@ EXCEPT !.pc = "recordFeedError", !.req = req,
                              !.StatusCode = resp.StatusCode,
                              !.err = ErrHTTP(resp.StatusCode)]
               ELSE [@ EXCEPT
                       !.pc = IF parsed.err # Nil THEN "recordFeedError"
                              ELSE "parsed",
                       !.req = req,
                       !.StatusCode = resp.StatusCode,
                       !.etag = [String |-> resp.ETag,
                                 Valid |-> resp.ETag # ""],
                       !.lastModified = [String |-> resp.LastModified,
                                         Valid |-> resp.LastModified # ""],
                       !.cacheControlMaxAge =
                           IF resp.CacheControl # <<>> /\ cc.hasMaxAge
                           THEN NullInt64(cc.maxAge) ELSE NoInt64,
                       !.parsedFeed = resp.Body,
                       !.err = parsed.err]]
    /\ UNCHANGED <<managerVars, model, urlsFile, now, feeds, items>>

Do(c, resp) ==
    /\ Alive
    /\ calls[c].pc = "do"
    /\   LET req == RoundTrip(calls[c].feed.Url)
             cc == parseCacheControl(resp.CacheControl)
             parsed == Parse(resp.Body)
         IN  calls' = [calls EXCEPT ![c] =
               IF resp.err # Nil
               THEN [@ EXCEPT !.pc = "recordFeedError", !.req = req,
                              !.err = resp.err]
               ELSE IF resp.StatusCode = 304
               THEN [@ EXCEPT !.pc = "notModified", !.req = req,
                              !.StatusCode = resp.StatusCode]
               ELSE IF resp.StatusCode < 200 \/ resp.StatusCode >= 300
               THEN [@ EXCEPT !.pc = "recordFeedError", !.req = req,
                              !.StatusCode = resp.StatusCode,
                              !.err = ErrHTTP(resp.StatusCode)]
               ELSE [@ EXCEPT
                       !.pc = IF parsed.err # Nil THEN "recordFeedError"
                              ELSE "parsed",
                       !.req = req,
                       !.StatusCode = resp.StatusCode,
                       !.etag = [String |-> resp.ETag,
                                 Valid |-> resp.ETag # ""],
                       !.lastModified = [String |-> resp.LastModified,
                                         Valid |-> resp.LastModified # ""],
                       !.cacheControlMaxAge =
                           IF resp.CacheControl # <<>> /\ cc.hasMaxAge
                           THEN NullInt64(cc.maxAge) ELSE NoInt64,
                       !.parsedFeed = resp.Body,
                       !.err = parsed.err]]
    /\ UNCHANGED <<managerVars, model, urlsFile, now, feeds, items>>

\* Mutant: recording the error also moves last_updated to the time.
recordFeedErrorTouches(c) ==
    /\ Alive
    /\ calls[c].pc = "recordFeedError"
    /\ feeds' = [feeds EXCEPT ![calls[c].feedID] =
                    [@ EXCEPT !.LastError = NullString(calls[c].err),
                              !.LastErrorTime = NullTime(now),
                              !.LastUpdated = NullTime(now)]]
    /\ calls' = [calls EXCEPT ![c] = Returned(@, @.err)]
    /\ UNCHANGED <<managerVars, model, urlsFile, now, items>>

\* Mutant: recording a parse error also commits the headers of the
\* response.
recordFeedErrorCommitsHeaders(c) ==
    /\ Alive
    /\ calls[c].pc = "recordFeedError"
    /\ feeds' = [feeds EXCEPT ![calls[c].feedID] =
                    [@ EXCEPT !.LastError = NullString(calls[c].err),
                              !.LastErrorTime = NullTime(now),
                              !.Etag = calls[c].etag,
                              !.LastModified = calls[c].lastModified,
                              !.CacheControlMaxAge =
                                  calls[c].cacheControlMaxAge]]
    /\ calls' = [calls EXCEPT ![c] = Returned(@, @.err)]
    /\ UNCHANGED <<managerVars, model, urlsFile, now, items>>

\* recordFeedError(feedID, err) with an error: UpdateFeedError, and the
\* call returns the error.
recordFeedError(c) ==
    /\ Alive
    /\ calls[c].pc = "recordFeedError"
    /\ UpdateFeedError(calls[c].feedID, NullString(calls[c].err),
                       NullTime(now))
    /\ calls' = [calls EXCEPT ![c] = Returned(@, @.err)]
    /\ UNCHANGED <<managerVars, model, urlsFile, now, items>>

\* recordFeedError(feedID, nil): ClearFeedError, after a 304 and after a
\* document that parsed.
ClearFeedError(c) ==
    /\ Alive
    /\ calls[c].pc \in {"notModified", "parsed"}
    /\ UpdateFeedError(calls[c].feedID, NoText, NoTime)
    /\ calls' = [calls EXCEPT ![c].pc =
                    IF @ = "notModified" THEN "touch" ELSE "update",
                                      ![c].StatusCode = 0]
    /\ UNCHANGED <<managerVars, model, urlsFile, now, items>>

\* Mutant: after a 304 the headers of the response, which has none, are
\* written in place of the stored ones.
UpdateFeedNotModifiedDropsHeaders(c) ==
    /\ Alive
    /\ calls[c].pc = "touch"
    /\ LET feed == calls[c].feed IN
       UpdateFeed(calls[c].feedID, feed.Title, feed.Description,
                  NullTime(now), calls[c].etag, calls[c].lastModified,
                  calls[c].cacheControlMaxAge)
    /\ calls' = [calls EXCEPT ![c] = Returned(@, Nil)]
    /\ UNCHANGED <<managerVars, model, urlsFile, now, items>>

\* After a 304: UpdateFeed with the fields GetFeed read and the time.
UpdateFeedNotModified(c) ==
    /\ Alive
    /\ calls[c].pc = "touch"
    /\ LET feed == calls[c].feed IN
       UpdateFeed(calls[c].feedID, feed.Title, feed.Description,
                  NullTime(now), feed.Etag, feed.LastModified,
                  feed.CacheControlMaxAge)
    /\ calls' = [calls EXCEPT ![c] = Returned(@, Nil)]
    /\ UNCHANGED <<managerVars, model, urlsFile, now, items>>

\* Mutant: a header the response does not carry keeps the stored value.
UpdateFeedParsedKeepsStored(c) ==
    /\ Alive
    /\ calls[c].pc = "update"
    /\ LET parsedFeed == Docs[calls[c].parsedFeed]
           feed == feeds[calls[c].feedID] IN
       /\ UpdateFeed(calls[c].feedID, parsedFeed.Title,
                     parsedFeed.Description, NullTime(now),
                     IF calls[c].etag.Valid THEN calls[c].etag
                     ELSE feed.Etag,
                     IF calls[c].lastModified.Valid
                     THEN calls[c].lastModified ELSE feed.LastModified,
                     IF calls[c].cacheControlMaxAge.Valid
                     THEN calls[c].cacheControlMaxAge
                     ELSE feed.CacheControlMaxAge)
       /\ calls' = [calls EXCEPT ![c] =
              IF Len(parsedFeed.Items) = 0
              THEN Returned(@, Nil)
              ELSE [@ EXCEPT !.pc = "upsert", !.i = 1]]
    /\ UNCHANGED <<managerVars, model, urlsFile, now, items>>

\* After a document that parsed: UpdateFeed with the document's title and
\* description, the time and the headers of the response.
\* Mutant: the commit of a document deletes the feed's item rows first.
UpdateFeedParsedDeletesItems(c) ==
    /\ Alive
    /\ calls[c].pc = "update"
    /\ LET parsedFeed == Docs[calls[c].parsedFeed] IN
       /\ UpdateFeed(calls[c].feedID, parsedFeed.Title,
                     parsedFeed.Description, NullTime(now), calls[c].etag,
                     calls[c].lastModified, calls[c].cacheControlMaxAge)
       /\ calls' = [calls EXCEPT ![c] =
              IF Len(parsedFeed.Items) = 0
              THEN Returned(@, Nil)
              ELSE [@ EXCEPT !.pc = "upsert", !.i = 1]]
    /\ items' = {r \in items : r.FeedID # calls[c].feedID}
    /\ UNCHANGED <<managerVars, model, urlsFile, now>>

UpdateFeedParsed(c) ==
    /\ Alive
    /\ calls[c].pc = "update"
    /\ LET parsedFeed == Docs[calls[c].parsedFeed] IN
       /\ UpdateFeed(calls[c].feedID, parsedFeed.Title,
                     parsedFeed.Description, NullTime(now), calls[c].etag,
                     calls[c].lastModified, calls[c].cacheControlMaxAge)
       /\ calls' = [calls EXCEPT ![c] =
              IF Len(parsedFeed.Items) = 0
              THEN Returned(@, Nil)
              ELSE [@ EXCEPT !.pc = "upsert", !.i = 1]]
    /\ UNCHANGED <<managerVars, model, urlsFile, now, items>>

\* Mutant: an item without a publication time is stored with the time of
\* the refresh.
UpsertItemStampsPublished(c) ==
    /\ Alive
    /\ calls[c].pc = "upsert"
    /\ LET parsedFeed == Docs[calls[c].parsedFeed]
           item == parsedFeed.Items[calls[c].i]
           row == UpsertItemRow(calls[c].feedID, item.GUID, item.Title,
                                itemDescription(item), itemContent(item),
                                item.Link,
                                IF item.PublishedParsed.Valid
                                THEN item.PublishedParsed
                                ELSE NullTime(now))
       IN  /\ \/ items' = {r \in items : r.ID # row.ID} \cup {row}
              \/ UNCHANGED items
           /\ calls' = [calls EXCEPT ![c] =
                  IF calls[c].i = Len(parsedFeed.Items)
                  THEN Returned(@, Nil)
                  ELSE [@ EXCEPT !.i = @ + 1]]
    /\ UNCHANGED <<managerVars, model, urlsFile, now, feeds>>

\* One round of the loop over parsedFeed.Items: UpsertItem, whose error
\* is logged and does not end the loop.
\* Mutant: the error of UpsertItem ends the loop and is returned.
UpsertItemReturnsErr(c) ==
    /\ Alive
    /\ calls[c].pc = "upsert"
    /\ LET parsedFeed == Docs[calls[c].parsedFeed]
           item == parsedFeed.Items[calls[c].i]
           row == UpsertItemRow(calls[c].feedID, item.GUID, item.Title,
                                itemDescription(item), itemContent(item),
                                item.Link, item.PublishedParsed)
       IN  \/ /\ items' = {r \in items : r.ID # row.ID} \cup {row}
              /\ calls' = [calls EXCEPT ![c] =
                     IF calls[c].i = Len(parsedFeed.Items)
                     THEN Returned(@, Nil)
                     ELSE [@ EXCEPT !.i = @ + 1]]
           \/ /\ UNCHANGED items
              /\ calls' = [calls EXCEPT ![c] = Returned(@, ErrUpdateFeed)]
    /\ UNCHANGED <<managerVars, model, urlsFile, now, feeds>>

UpsertItem(c) ==
    /\ Alive
    /\ calls[c].pc = "upsert"
    /\ LET parsedFeed == Docs[calls[c].parsedFeed]
           item == parsedFeed.Items[calls[c].i]
           row == UpsertItemRow(calls[c].feedID, item.GUID, item.Title,
                                itemDescription(item), itemContent(item),
                                item.Link, item.PublishedParsed)
       IN  /\ \/ items' = {r \in items : r.ID # row.ID} \cup {row}
              \/ UNCHANGED items
           /\ calls' = [calls EXCEPT ![c] =
                  IF calls[c].i = Len(parsedFeed.Items)
                  THEN Returned(@, Nil)
                  ELSE [@ EXCEPT !.i = @ + 1]]
    /\ UNCHANGED <<managerVars, model, urlsFile, now, feeds>>

\* The caller takes the result; its goroutine may call again.
Return(c) ==
    /\ Alive
    /\ calls[c].pc = "returned"
    /\ calls' = [calls EXCEPT ![c] = IdleCall]
    /\ UNCHANGED <<managerVars, model, urlsFile, now, feeds, items>>

\* A second passes.
Tick ==
    /\ Alive
    /\ now < MaxTime
    /\ now' = now + 1
    /\ UNCHANGED <<managerVars, model, urlsFile, feeds, items, calls>>

\* ---------------------------------------------------------- specifications

WorkerRun(w) ==
    \/ WorkerReceive(w)
    \/ SetRunning(w)
    \/ PublishStarted(w)
    \/ LookupHandler(w)
    \/ HandlerReturn(w)
    \/ CompleteTask(w)
    \/ PublishTerminal(w)

Next ==
    \/ (~queueClosed /\ Start)
    \/ Stop
    \/ CloseEvents
    \/ AddTask
    \/ RegisterHandler(FeedRefreshHandler)
    \/ \E id \in TaskIds : RemoveTask(id)
    \/ ClearFailedTasks
    \/ \E w \in WorkerIds : WorkerRun(w)
    \/ \E w \in WorkerIds : WorkerExit(w)
    \/ Receive

Spec == Init /\ [][Next]_vars

\* The life of a manager from Start to the close of the event stream, under
\* fair scheduling of the goroutines, every handler returning.
NextStop ==
    \/ (~queueClosed /\ Start)
    \/ StopRecorded
    \/ CloseEvents
    \/ AddTask
    \/ RegisterHandler(FeedRefreshHandler)
    \/ \E w \in WorkerIds : WorkerRun(w)
    \/ \E w \in WorkerIds : WorkerExit(w)
    \/ Receive

StopSpec ==
    /\ Init
    /\ [][NextStop]_vars
    /\ \A w \in WorkerIds : WF_vars(WorkerRun(w)) /\ WF_vars(WorkerExit(w))
    /\ WF_vars(CloseEvents)

\* RegisterHandler called again and again, with any handler of the task
\* type; the history variable registered keeps each call's argument and
\* return value.
MaxRegister == 2

\* The handler run() registers and a second implementation of
\* tasks.TaskHandler for the same task type.
Handlers == {FeedRefreshHandler, "OtherHandler"}

\* Mutant: the map entry is overwritten and nil returned.
RegisterHandlerOverwrites(h) ==
    /\ Alive
    /\ UNCHANGED <<feedVars, model, urlsFile>>
    /\ Len(registered) < MaxRegister
    /\ handlers' = [handlers EXCEPT ![TaskTypeFeedRefresh] = h]
    /\ registered' = Append(registered, <<h, "">>)
    /\ UNCHANGED <<lifecycleVars, eventsClosed, panicked, tasks, taskObj,
                   taskQueue, events, workers, accepted, published, dropped,
                   observed, runningAtStop, stops>>

RegisterHandlerRecorded(h) ==
    /\ Alive
    /\ UNCHANGED <<feedVars, model, urlsFile>>
    /\ Len(registered) < MaxRegister
    /\ IF handlers[TaskTypeFeedRefresh] # NoHandler
       THEN /\ UNCHANGED handlers
            /\ registered' = Append(registered, <<h, ErrHandlerExists>>)
       ELSE /\ handlers' = [handlers EXCEPT ![TaskTypeFeedRefresh] = h]
            /\ registered' = Append(registered, <<h, "">>)
    /\ UNCHANGED <<lifecycleVars, eventsClosed, panicked, tasks, taskObj,
                   taskQueue, events, workers, accepted, published, dropped,
                   observed, runningAtStop, stops>>

NextRegister ==
    \/ Start
    \/ AddTask
    \/ \E h \in Handlers : RegisterHandlerRecorded(h)
    \/ \E w \in WorkerIds : WorkerRun(w)
    \/ Receive

RegisterSpec == Init /\ [][NextRegister]_vars

\* A running manager whose task table only ClearFailedTasks empties.
NextClear ==
    \/ Start
    \/ AddTask
    \/ RegisterHandler(FeedRefreshHandler)
    \/ ClearFailedTasks
    \/ \E w \in WorkerIds : WorkerRun(w)
    \/ Receive

ClearSpec == Init /\ [][NextClear]_vars

\* Stop called again and again: by quitApp, by the deferred call of run(),
\* on a manager that was never started. The history variable stops keeps
\* the value each call returned.
MaxStops == 2

StopLogged ==
    /\ Len(stops) < MaxStops
    /\ stops' = Append(stops, StopErr)
    /\ StopCall
    /\ UNCHANGED runningAtStop

NextStopTwice ==
    \/ (~queueClosed /\ Start)
    \/ StopLogged
    \/ CloseEvents
    \/ AddTask
    \/ RegisterHandler(FeedRefreshHandler)
    \/ \E w \in WorkerIds : WorkerRun(w)
    \/ \E w \in WorkerIds : WorkerExit(w)
    \/ Receive

StopTwiceSpec == Init /\ [][NextStopTwice]_vars

\* A manager that run() starts and nobody stops: submissions, the workers
\* and the subscriber.
NextLive ==
    \/ Start
    \/ AddTask
    \/ RegisterHandler(FeedRefreshHandler)
    \/ \E w \in WorkerIds : WorkerRun(w)
    \/ Receive

LiveSpec ==
    /\ Init
    /\ [][NextLive]_vars
    /\ WF_vars(Start)
    /\ \A w \in WorkerIds : WF_vars(WorkerRun(w))
    /\ WF_vars(Receive)

\* The same manager with no subscriber: nothing ever reads m.events.
NextNoSubscriber ==
    \/ Start
    \/ AddTask
    \/ RegisterHandler(FeedRefreshHandler)
    \/ \E id \in TaskIds : RemoveTask(id)
    \/ ClearFailedTasks
    \/ \E w \in WorkerIds : WorkerRun(w)

NoSubscriberSpec ==
    /\ Init
    /\ [][NextNoSubscriber]_vars
    /\ WF_vars(Start)
    /\ \A w \in WorkerIds : WF_vars(WorkerRun(w))

\* The feed fetcher alone: the callers of RefreshFeed and the clock.
RefreshFeedRun(c) ==
    \/ \E feedID \in RequestedIds : RefreshFeed(c, feedID)
    \/ CacheCheck(c)
    \/ \E resp \in Responses : Do(c, resp)
    \/ recordFeedError(c)
    \/ ClearFeedError(c)
    \/ UpdateFeedNotModified(c)
    \/ UpdateFeedParsed(c)
    \/ UpsertItem(c)
    \/ Return(c)

NextFeed ==
    \/ \E c \in SingleCaller : RefreshFeedRun(c)
    \/ Tick

FeedSpec == InitFeed /\ [][NextFeed]_vars

\* Two goroutines refresh the same feed at once; the origin answers with
\* an error status, with 304, with the document and caching headers, or
\* with the later edition of the document and no header.
ConcurrentResponses ==
    {Response(Nil, 500, "", "", <<>>, Malformed),
     Response(Nil, 304, "", "", <<>>, Malformed),
     Response(Nil, 200, "etag-1", "",
              <<Directive("max-age=", MaxAge, TRUE)>>, 1),
     Response(Nil, 200, "", "", <<>>, 2)}

InitConcurrent ==
    /\ InitManager
    /\ InitFeeds
    /\ feeds = [id \in FeedIds |-> AddFeedWithoutFetching(id, FeedURL)]
    /\ calls = [c \in Callers |-> IdleCall]

RefreshFeedConcurrentRun(c) ==
    \/ \E feedID \in FeedIds : RefreshFeed(c, feedID)
    \/ CacheCheck(c)
    \/ \E resp \in ConcurrentResponses : Do(c, resp)
    \/ recordFeedError(c)
    \/ ClearFeedError(c)
    \/ UpdateFeedNotModified(c)
    \/ UpdateFeedParsed(c)
    \/ UpsertItem(c)
    \/ Return(c)

NextConcurrent ==
    \/ \E c \in Callers : RefreshFeedConcurrentRun(c)
    \/ Tick

ConcurrentSpec == InitConcurrent /\ [][NextConcurrent]_vars

\* ------------------------------------------- the feed refresh task handler
\* tasks.FeedRefreshHandler: a worker's Execute calls RefreshFeed with the
\* feed id of the task; the call is the worker's own.

\* fmt.Errorf("feed refresh failed: %w", err).Error(); "" for nil.
FeedRefreshFailed(err) ==
    CASE err = Nil -> ""
      [] err = ErrHTTP(500) ->
             "feed refresh failed: HTTP 500: Internal Server Error"
      [] err = ErrHTTP(404) -> "feed refresh failed: HTTP 404: Not Found"
      [] err = ErrTransport -> "feed refresh failed: Get: connection refused"
      [] err = ErrParse -> "feed refresh failed: Failed to detect feed type"
      [] err = ErrNoRows -> "feed refresh failed: sql: no rows in result set"
      [] err = ErrUpdateFeed -> "feed refresh failed: database is locked"

\* Execute up to GetFeed: the feed id is read from the task's data and
\* RefreshFeed begins.
Execute(w, feedID) ==
    /\ workers[w].pc = "exec"
    /\ workers[w].handler = FeedRefreshHandler
    /\ RefreshFeed(w, feedID)

\* Mutant: Execute logs the error of RefreshFeed and returns nil.
ExecuteReturnSwallows(w) ==
    /\ Alive
    /\ workers[w].pc = "exec"
    /\ calls[w].pc = "returned"
    /\ workers' = [workers EXCEPT ![w].pc = "complete", ![w].err = ""]
    /\ calls' = [calls EXCEPT ![w] = IdleCall]
    /\ UNCHANGED <<lifecycleVars, eventsClosed, panicked, tasks, taskObj,
                   taskQueue, handlers, events, historyVars, model, urlsFile,
                   now,
                   feeds, items>>

\* Execute returns what RefreshFeed returned, an error wrapped.
ExecuteReturn(w) ==
    /\ Alive
    /\ workers[w].pc = "exec"
    /\ calls[w].pc = "returned"
    /\ workers' = [workers EXCEPT ![w].pc = "complete",
                                  ![w].err = FeedRefreshFailed(calls[w].err)]
    /\ calls' = [calls EXCEPT ![w] = IdleCall]
    /\ UNCHANGED <<lifecycleVars, eventsClosed, panicked, tasks, taskObj,
                   taskQueue, handlers, events, historyVars, model, urlsFile,
                   now,
                   feeds, items>>

\* The origin of the feed answers with an error status or with the
\* document.
TaskResponses ==
    {Response(Nil, 500, "", "", <<>>, Malformed),
     Response(Nil, 200, "", "", <<>>, 1)}

\* run(): the manager is started and the handler registered before any
\* task is submitted; the database holds one feed.
InitTaskRefresh ==
    /\ running = TRUE
    /\ ctxDone = FALSE
    /\ queueClosed = FALSE
    /\ eventsClosed = FALSE
    /\ closer = "none"
    /\ panicked = ""
    /\ tasks = {}
    /\ taskObj = <<>>
    /\ taskQueue = <<>>
    /\ handlers = [t \in TaskTypes |-> FeedRefreshHandler]
    /\ events = <<>>
    /\ workers = [w \in WorkerIds |-> IdleWorker]
    /\ accepted = {}
    /\ published = {}
    /\ dropped = {}
    /\ observed = [id \in TaskIds |-> [started |-> 0, terminal |-> 0]]
    /\ runningAtStop = {}
    /\ registered = <<>>
    /\ stops = <<>>
    /\ InitFeeds
    /\ feeds = [id \in FeedIds |-> AddFeedWithoutFetching(id, FeedURL)]
    /\ calls = [w \in WorkerIds |-> IdleCall]

\* A worker with the feed refresh handler.
WorkerRefresh(w) ==
    \/ WorkerReceive(w)
    \/ SetRunning(w)
    \/ PublishStarted(w)
    \/ LookupHandler(w)
    \/ \E feedID \in FeedIds : Execute(w, feedID)
    \/ CacheCheck(w)
    \/ \E resp \in TaskResponses : Do(w, resp)
    \/ recordFeedError(w)
    \/ ClearFeedError(w)
    \/ UpdateFeedParsed(w)
    \/ UpsertItem(w)
    \/ ExecuteReturn(w)
    \/ CompleteTask(w)
    \/ PublishTerminal(w)

\* Refresh tasks are submitted, the workers run them, the subscriber reads
\* the events.
NextTaskRefresh ==
    \/ AddTask
    \/ \E w \in WorkerIds : WorkerRefresh(w)
    \/ Receive

TaskRefreshSpec ==
    /\ InitTaskRefresh
    /\ [][NextTaskRefresh]_vars
    /\ \A w \in WorkerIds : WF_vars(WorkerRefresh(w))

\* ------------------------------------------------- the refresh orchestrator
\* internal/ui: Model.Update and Model.startNextBatchOfFeeds. A command
\* (tea.Cmd) runs in its own goroutine and its message reaches Update at
\* some later time, in any order with the messages of other commands.
\* model.cmds holds the commands that have been returned by Update and
\* whose message Update has not received yet; equal commands are held
\* once.

\* The ids GetFeedStats returns, in order.
FeedStats(n) == [i \in 1..n |-> i]

Cmd(type, feedID) == [type |-> type, FeedID |-> feedID]

\* func() tea.Msg { return RefreshAllMsg{} }
RefreshAllCmd == Cmd("RefreshAllMsg", 0)

\* refreshAllFeedsConcurrent
RefreshAllStartCmd == Cmd("RefreshAllStartMsg", 0)

\* func() tea.Msg { return RefreshCompleteMsg{} }
RefreshCompleteCmd == Cmd("RefreshCompleteMsg", 0)

\* func() tea.Msg { return FeedRefreshStartMsg{FeedID: id} }
FeedRefreshStartCmd(id) == Cmd("FeedRefreshStartMsg", id)

\* refreshFeedAndReload(m.feedManager, id): RefreshFeed runs, then the
\* command returns RefreshMsg{FeedID: id} or ErrorMsg.
RefreshFeedAndReloadCmd(id) == Cmd("refreshFeedAndReload", id)

\* func() tea.Msg { return FeedRefreshCompleteMsg(msg) }
FeedRefreshCompleteCmd(id) == Cmd("FeedRefreshCompleteMsg", id)

\* startNextBatchOfFeeds: the model it leaves, its commands added.
startNextBatchOfFeeds(mdl) ==
    LET currentlyRefreshing == Cardinality(mdl.refreshingFeeds)
        availableSlots == maxConcurrency - currentlyRefreshing
        feedsToStart ==
            IF Len(mdl.pendingFeeds) = 0 \/ availableSlots <= 0 THEN 0
            ELSE IF availableSlots < Len(mdl.pendingFeeds) THEN availableSlots
            ELSE Len(mdl.pendingFeeds)
        batch == {mdl.pendingFeeds[i] : i \in 1..feedsToStart}
    IN  [mdl EXCEPT
           !.pendingFeeds = SubSeq(@, feedsToStart + 1, Len(@)),
           !.cmds = @ \cup {FeedRefreshStartCmd(id) : id \in batch}
                      \cup {RefreshFeedAndReloadCmd(id) : id \in batch}]

\* Update, case RefreshAllMsg.
UpdateRefreshAllMsg ==
    /\ RefreshAllCmd \in model.cmds
    /\ model' = [model EXCEPT !.cmds = (@ \ {RefreshAllCmd})
                         \cup {RefreshAllStartCmd, RefreshCompleteCmd}]
    /\ UNCHANGED <<managerVars, feedVars, urlsFile>>

\* Update, case RefreshAllStartMsg: the pending queue is all the feeds,
\* and the first batch starts.
UpdateRefreshAllStartMsg ==
    /\ RefreshAllStartCmd \in model.cmds
    /\ \E n \in 0..MaxFeeds :
         model' = startNextBatchOfFeeds(
                      [model EXCEPT !.pendingFeeds = FeedStats(n),
                                    !.cmds = @ \ {RefreshAllStartCmd}])
    /\ UNCHANGED <<managerVars, feedVars, urlsFile>>

\* Update, case FeedRefreshStartMsg.
UpdateFeedRefreshStartMsg(id) ==
    /\ FeedRefreshStartCmd(id) \in model.cmds
    /\ model' = [model EXCEPT !.refreshingFeeds = @ \cup {id},
                              !.cmds = @ \ {FeedRefreshStartCmd(id)}]
    /\ UNCHANGED <<managerVars, feedVars, urlsFile>>

\* Update, case RefreshMsg: the refresh of the feed returned nil.
UpdateRefreshMsg(id) ==
    /\ RefreshFeedAndReloadCmd(id) \in model.cmds
    /\ model' = [model EXCEPT !.cmds = (@ \ {RefreshFeedAndReloadCmd(id)})
                         \cup {RefreshCompleteCmd, FeedRefreshCompleteCmd(id)}]
    /\ UNCHANGED <<managerVars, feedVars, urlsFile>>

\* Update, case ErrorMsg: the refresh of the feed returned an error.
UpdateErrorMsg(id) ==
    /\ RefreshFeedAndReloadCmd(id) \in model.cmds
    /\ model' = [model EXCEPT !.refreshingFeeds = {},
                              !.cmds = @ \ {RefreshFeedAndReloadCmd(id)}]
    /\ UNCHANGED <<managerVars, feedVars, urlsFile>>

\* Update, case RefreshCompleteMsg.
UpdateRefreshCompleteMsg ==
    /\ RefreshCompleteCmd \in model.cmds
    /\ model' = [model EXCEPT !.refreshing = FALSE,
                              !.refreshingFeeds = {},
                              !.cmds = @ \ {RefreshCompleteCmd}]
    /\ UNCHANGED <<managerVars, feedVars, urlsFile>>

\* Update, case FeedRefreshCompleteMsg.
UpdateFeedRefreshCompleteMsg(id) ==
    /\ FeedRefreshCompleteCmd(id) \in model.cmds
    /\ LET mdl == [model EXCEPT
                      !.refreshingFeeds = @ \ {id},
                      !.cmds = @ \ {FeedRefreshCompleteCmd(id)}]
       IN  model' =
             IF Len(mdl.pendingFeeds) > 0
             THEN startNextBatchOfFeeds(mdl)
             ELSE IF mdl.refreshingFeeds = {}
             THEN [mdl EXCEPT !.cmds = @ \cup {RefreshCompleteCmd}]
             ELSE mdl
    /\ UNCHANGED <<managerVars, feedVars, urlsFile>>

\* One refresh-all: RefreshAllMsg is on its way to Update.
InitOrchestrator ==
    /\ InitManager
    /\ now = 0
    /\ items = {}
    /\ feeds = [id \in {} |-> NoFeed]
    /\ calls = [c \in {} |-> IdleCall]
    /\ model = [NewModel EXCEPT !.cmds = {RefreshAllCmd}]
    /\ urlsFile = <<>>

NextOrchestrator ==
    \/ UpdateRefreshAllMsg
    \/ UpdateRefreshAllStartMsg
    \/ \E id \in 1..MaxFeeds : UpdateFeedRefreshStartMsg(id)
    \/ \E id \in 1..MaxFeeds : UpdateRefreshMsg(id)
    \/ \E id \in 1..MaxFeeds : UpdateErrorMsg(id)
    \/ UpdateRefreshCompleteMsg
    \/ \E id \in 1..MaxFeeds : UpdateFeedRefreshCompleteMsg(id)

OrchestratorSpec == InitOrchestrator /\ [][NextOrchestrator]_vars

\* The orchestrator under fair scheduling: every command returns and its
\* message is delivered to Update.
OrchestratorFairSpec ==
    /\ InitOrchestrator
    /\ [][NextOrchestrator]_vars
    /\ WF_vars(UpdateRefreshAllMsg)
    /\ WF_vars(UpdateRefreshAllStartMsg)
    /\ WF_vars(UpdateRefreshCompleteMsg)
    /\ \A id \in 1..MaxFeeds :
         /\ WF_vars(UpdateFeedRefreshStartMsg(id))
         /\ WF_vars(UpdateRefreshMsg(id) \/ UpdateErrorMsg(id))
         /\ WF_vars(UpdateFeedRefreshCompleteMsg(id))

\* ------------------------------------------------ refresh-all through tasks
\* internal/ui: the "R" key and the automatic reload submit one task per
\* feed to the task manager; Update learns of their progress from the
\* events listenForTaskEvents reads. The loop over m.allFeeds runs inside
\* one call of Update while the workers go on: model.submit holds the feeds
\* the loop has not reached, model.after the handler that is running.
\* config.ReloadTime is positive. The spinner, the status line and the
\* lists shown are not modelled.

MaxTimers == 2

\* Update is not running.
UIIdle == model.after = ""

\* handleFeedListKeys, case "R", up to the loop over m.allFeeds.
handleFeedListKeysR ==
    /\ Alive
    /\ UIIdle
    /\ ~model.refreshing
    /\ Len(taskObj) + model.allFeeds <= MaxTasks
    /\ model' = [model EXCEPT !.refreshing = TRUE,
                              !.submit = FeedStats(model.allFeeds),
                              !.after = "R"]
    /\ UNCHANGED <<managerVars, feedVars, urlsFile>>

\* One turn of the loop: CreateFeedRefreshTask and AddTask, whose error
\* is skipped over.
SubmitTask ==
    /\ Alive
    /\ model.after # ""
    /\ Len(model.submit) > 0
    /\ LET id == Len(taskObj) + 1 IN
       /\ taskObj' = Append(taskObj, [Status |-> TaskStatusPending, Error |-> ""])
       /\ tasks' = tasks \cup {id}
       /\ IF queueClosed
          THEN /\ panicked' = PanicSendOnClosedQueue
               /\ UNCHANGED <<taskQueue, accepted>>
          ELSE IF Len(taskQueue) < QueueCap
          THEN /\ taskQueue' = Append(taskQueue, id)
               /\ accepted' = accepted \cup {id}
               /\ UNCHANGED panicked
          ELSE UNCHANGED <<panicked, taskQueue, accepted>>
    /\ model' = [model EXCEPT !.submit = Tail(@),
                              !.taskFeed = Append(@, Head(model.submit))]
    /\ UNCHANGED <<lifecycleVars, eventsClosed, handlers, events, workers,
                   published, dropped, observed, runningAtStop,
                   registered, stops, feedVars, urlsFile>>

\* The handler returns its commands: RefreshStartMsg after "R"; after
\* ReloadTimerMsg, RefreshStartMsg under the condition of the code and the
\* next timer when auto reload is enabled.
UpdateReturn ==
    /\ Alive
    /\ model.after # ""
    /\ model.submit = <<>>
    /\ model' =
         IF model.after = "R"
         THEN [model EXCEPT !.after = "",
                            !.cmds = @ \cup {Cmd("RefreshStartMsg", 0)}]
         ELSE [model EXCEPT
                 !.after = "",
                 !.cmds = @ \cup
                     (IF (~model.refreshing \/ model.config.SuppressFirstReload)
                         /\ model.refreshing
                      THEN {Cmd("RefreshStartMsg", 0)} ELSE {}),
                 !.timers = IF model.config.AutoReload THEN @ + 1 ELSE @]
    /\ UNCHANGED <<managerVars, feedVars, urlsFile>>

\* Update, case RefreshStartMsg.
UpdateRefreshStartMsg ==
    /\ Alive
    /\ UIIdle
    /\ Cmd("RefreshStartMsg", 0) \in model.cmds
    /\ model' = [model EXCEPT !.refreshing = TRUE,
                              !.cmds = @ \ {Cmd("RefreshStartMsg", 0)}]
    /\ UNCHANGED <<managerVars, feedVars, urlsFile>>

\* Update, case ReloadTimerMsg, up to the loop over m.allFeeds.
reloadTimerMsg(mdl) ==
    IF mdl.firstAutoReload /\ mdl.config.SuppressFirstReload
    THEN [mdl EXCEPT !.firstAutoReload = FALSE, !.after = "reload"]
    ELSE IF ~mdl.refreshing /\ mdl.allFeeds > 0
    THEN [mdl EXCEPT !.refreshing = TRUE,
                     !.submit = FeedStats(mdl.allFeeds),
                     !.firstAutoReload = FALSE,
                     !.after = "reload"]
    ELSE [mdl EXCEPT !.after = "reload"]

\* ReloadTimerMsg reaches Update: a timer of waitForReloadTimer fires, or
\* the command of the startup reload returns.
UpdateReloadTimerMsg ==
    /\ Alive
    /\ UIIdle
    /\ \/ /\ model.timers > 0
          /\ model' = reloadTimerMsg([model EXCEPT !.timers = @ - 1])
       \/ /\ Cmd("ReloadTimerMsg", 0) \in model.cmds
          /\ model' = reloadTimerMsg(
                          [model EXCEPT !.cmds = @ \ {Cmd("ReloadTimerMsg", 0)}])
    /\ Len(model'.submit) + Len(taskObj) <= MaxTasks
    /\ UNCHANGED <<managerVars, feedVars, urlsFile>>

\* The settings view, "enter" in the selection of auto reload: the choice
\* is stored and restartReloadTimer returned.
SelectAutoReload ==
    /\ Alive
    /\ UIIdle
    /\ model.timers < MaxTimers
    /\ \E b \in BOOLEAN :
         model' = [model EXCEPT !.config.AutoReload = b,
                                !.cmds = @ \cup {Cmd("RestartReloadTimerMsg", 0)}]
    /\ UNCHANGED <<managerVars, feedVars, urlsFile>>

\* Update, case RestartReloadTimerMsg.
UpdateRestartReloadTimerMsg ==
    /\ Alive
    /\ UIIdle
    /\ Cmd("RestartReloadTimerMsg", 0) \in model.cmds
    /\ model' = [model EXCEPT
                   !.cmds = @ \ {Cmd("RestartReloadTimerMsg", 0)},
                   !.timers = IF model.config.AutoReload THEN @ + 1 ELSE @]
    /\ UNCHANGED <<managerVars, feedVars, urlsFile>>

\* Update, case FeedListLoadedMsg: loadFeedList has read the feeds; the
\* first load starts the startup reload.
UpdateFeedListLoadedMsg ==
    /\ Alive
    /\ UIIdle
    /\ Cmd("loadFeedList", 0) \in model.cmds
    /\ LET n == Cardinality(DOMAIN feeds)
           startup == model.pendingStartupReload /\ n > 0
       IN  model' = [model EXCEPT
                       !.allFeeds = n,
                       !.pendingStartupReload = IF startup THEN FALSE ELSE @,
                       !.cmds = (@ \ {Cmd("loadFeedList", 0)}) \cup
                                (IF startup THEN {Cmd("ReloadTimerMsg", 0)}
                                 ELSE {})]
    /\ UNCHANGED <<managerVars, feedVars, urlsFile>>

\* listenForTaskEvents returns the next event and Update handles
\* TaskEventMsg: a started task marks its feed as refreshing, a terminal
\* one unmarks it, and RefreshCompleteMsg is sent when no feed is marked.
UpdateTaskEventMsg ==
    /\ Alive
    /\ UIIdle
    /\ Len(events) > 0
    /\ LET e == Head(events)
           feedID == model.taskFeed[e.TaskID]
       IN  /\ observed' = [observed EXCEPT ![e.TaskID] =
                  IF e.Type = TaskEventStarted
                  THEN [@ EXCEPT !.started = @ + 1]
                  ELSE [@ EXCEPT !.terminal = @ + 1]]
           /\ model' =
                IF e.Type = TaskEventStarted
                THEN [model EXCEPT !.refreshingFeeds = @ \cup {feedID}]
                ELSE [model EXCEPT
                        !.refreshingFeeds = @ \ {feedID},
                        !.cmds = @ \cup {Cmd("loadFeedList", 0)} \cup
                            (IF model.refreshingFeeds \ {feedID} = {}
                                /\ model.refreshing
                             THEN {RefreshCompleteCmd} ELSE {})]
    /\ events' = Tail(events)
    /\ UNCHANGED <<lifecycleVars, eventsClosed, panicked, tasks, taskObj,
                   taskQueue, handlers, workers, accepted, published,
                   dropped, runningAtStop, registered, stops, feedVars,
                   urlsFile>>

\* run() and Model.Init: the manager is started and the handler
\* registered, the database holds some feeds or none, the configuration is
\* any; Init returns loadFeedList and, with auto reload, the first timer.
InitRefreshAll ==
    /\ running = TRUE
    /\ ctxDone = FALSE
    /\ queueClosed = FALSE
    /\ eventsClosed = FALSE
    /\ closer = "none"
    /\ panicked = ""
    /\ tasks = {}
    /\ taskObj = <<>>
    /\ taskQueue = <<>>
    /\ handlers = [t \in TaskTypes |-> FeedRefreshHandler]
    /\ events = <<>>
    /\ workers = [w \in WorkerIds |-> IdleWorker]
    /\ accepted = {}
    /\ published = {}
    /\ dropped = {}
    /\ observed = [id \in TaskIds |-> [started |-> 0, terminal |-> 0]]
    /\ runningAtStop = {}
    /\ registered = <<>>
    /\ stops = <<>>
    /\ now = 0
    /\ items = {}
    /\ \E n \in 0..MaxTasks :
         feeds = [id \in 1..n |-> AddFeedWithoutFetching(id, FeedURL)]
    /\ calls = [c \in {} |-> IdleCall]
    /\ \E auto \in BOOLEAN, suppress \in BOOLEAN, startup \in BOOLEAN :
         model = [NewModel EXCEPT
                    !.config = [AutoReload |-> auto,
                                SuppressFirstReload |-> suppress],
                    !.pendingStartupReload = startup,
                    !.cmds = {Cmd("loadFeedList", 0)},
                    !.timers = IF auto THEN 1 ELSE 0]
    /\ urlsFile = <<>>

NextRefreshAll ==
    \/ handleFeedListKeysR
    \/ SubmitTask
    \/ UpdateReturn
    \/ UpdateRefreshStartMsg
    \/ UpdateReloadTimerMsg
    \/ SelectAutoReload
    \/ UpdateRestartReloadTimerMsg
    \/ UpdateFeedListLoadedMsg
    \/ UpdateTaskEventMsg
    \/ (UIIdle /\ UpdateRefreshCompleteMsg)
    \/ \E w \in WorkerIds : WorkerRun(w)

\* Every goroutine is scheduled, every command returns and its message
\* reaches Update; the user presses keys or not.
RefreshAllSpec ==
    /\ InitRefreshAll
    /\ [][NextRefreshAll]_vars
    /\ WF_vars(SubmitTask)
    /\ WF_vars(UpdateReturn)
    /\ WF_vars(UpdateRefreshStartMsg)
    /\ WF_vars(UpdateReloadTimerMsg)
    /\ WF_vars(UpdateRestartReloadTimerMsg)
    /\ WF_vars(UpdateFeedListLoadedMsg)
    /\ WF_vars(UpdateTaskEventMsg)
    /\ WF_vars(UIIdle /\ UpdateRefreshCompleteMsg)
    /\ \A w \in WorkerIds : WF_vars(WorkerRun(w))

\* ---------------------------------------------------------- the URLs file
\*
\* config/urls.go.  The file is the sequence of its lines, a line the
\* sequence of its characters (bufio.Scanner's Text and WriteString's
\* output + "\n"); reads and writes of the file succeed.

MaxLines == 2

\* unicode.IsSpace, for the characters of the lines below.
IsSpace(ch) == ch \in {" ", "\t"}

\* strings.TrimSpace
TrimSpace(str) ==
    LET RECURSIVE TrimLeft(_)
        TrimLeft(t) ==
            IF t # <<>> /\ IsSpace(Head(t)) THEN TrimLeft(Tail(t)) ELSE t
        RECURSIVE TrimRight(_)
        TrimRight(t) ==
            IF t # <<>> /\ IsSpace(t[Len(t)])
            THEN TrimRight(SubSeq(t, 1, Len(t) - 1))
            ELSE t
    IN  TrimRight(TrimLeft(str))

\* strings.Fields: the maximal runs of non-space characters; parts are the
\* fields found so far and current the run being read.
Fields(str) ==
    LET RECURSIVE FieldsFrom(_, _, _)
        FieldsFrom(t, parts, current) ==
            IF t = <<>>
            THEN IF current = <<>> THEN parts ELSE Append(parts, current)
            ELSE IF IsSpace(Head(t))
            THEN FieldsFrom(Tail(t),
                            IF current = <<>> THEN parts
                            ELSE Append(parts, current),
                            <<>>)
            ELSE FieldsFrom(Tail(t), parts, Append(current, Head(t)))
    IN  FieldsFrom(str, <<>>, <<>>)

\* strings.Join
RECURSIVE Join(_, _)
Join(parts, sep) ==
    IF parts = <<>> THEN <<>>
    ELSE IF Len(parts) = 1 THEN parts[1]
    ELSE parts[1] \o sep \o Join(Tail(parts), sep)

\* parseFolders: the loop over the bytes of folderStr, then the last
\* folder.
parseFolders(folderStr) ==
    LET RECURSIVE Loop(_, _, _, _)
        Loop(t, folders, current, inQuotes) ==
            IF t = <<>>
            THEN IF TrimSpace(current) # <<>>
                 THEN Append(folders, TrimSpace(current))
                 ELSE folders
            ELSE IF Head(t) = "\""
            THEN Loop(Tail(t), folders, current, ~inQuotes)
            ELSE IF Head(t) = "," /\ ~inQuotes
            THEN Loop(Tail(t),
                      IF TrimSpace(current) # <<>>
                      THEN Append(folders, TrimSpace(current))
                      ELSE folders,
                      <<>>, inQuotes)
            ELSE Loop(Tail(t), folders, Append(current, Head(t)), inQuotes)
    IN  IF folderStr = <<>> THEN <<>>
        ELSE Loop(folderStr, <<>>, <<>>, FALSE)

\* config.Line of an entry, with Entry's fields beside Raw and IsEntry.
EntryLine(url, folders) ==
    [IsEntry |-> TRUE, Raw |-> <<>>, URL |-> url, Folders |-> folders]

\* The body of ReadAllLinesFromPath's scanner loop.
ReadLine(rawLine) ==
    LET trimmedLine == TrimSpace(rawLine)
        parts == Fields(trimmedLine)
        comment == [IsEntry |-> FALSE, Raw |-> rawLine, URL |-> <<>>,
                    Folders |-> <<>>]
    IN  IF trimmedLine = <<>> \/ Head(trimmedLine) = "#"
        THEN comment
        ELSE IF Len(parts) = 0
        THEN comment
        ELSE EntryLine(parts[1],
                       IF Len(parts) > 1
                       THEN parseFolders(Join(Tail(parts), <<" ">>))
                       ELSE <<>>)

ReadAllLinesFromPath(file) == [i \in DOMAIN file |-> ReadLine(file[i])]

\* The body of WriteAllLines' loop: the line's output.
WriteLine(line) ==
    IF line.IsEntry
    THEN IF Len(line.Folders) > 0
         THEN line.URL \o <<" ">> \o Join(line.Folders, <<",">>)
         ELSE line.URL
    ELSE line.Raw

WriteAllLines(lines) == [i \in DOMAIN lines |-> WriteLine(lines[i])]

\* The feed URLs the user adds and removes.
URLs == {<<"a">>, <<"b">>}

\* Lines a user's editor leaves in the file: blank and comment lines, bare
\* entries, and entries with folders in the forms the README documents.
FileLines ==
    { <<>>,
      <<" ">>,
      <<"#", "c">>,
      <<" ", "#", "c">>,
      <<"a">>,
      <<"b">>,
      <<"a", " ", "f">>,
      <<"b", " ", "f", ",", "g">>,
      <<"a", " ", "\"", "f", " ", "g", "\"">>,
      <<"b", " ", "\"", "f", ",", "g", "\"">> }

Files == UNION {[1..n -> FileLines] : n \in 0..MaxLines}

HasURL(lines, url) ==
    \E i \in DOMAIN lines : lines[i].IsEntry /\ lines[i].URL = url

\* AddURL: nothing is written when the URL is already an entry.
AddURL(url) ==
    /\ LET lines == ReadAllLinesFromPath(urlsFile)
       IN  IF HasURL(lines, url)
           THEN UNCHANGED urlsFile
           ELSE urlsFile' =
                    WriteAllLines(Append(lines, EntryLine(url, <<>>)))
    /\ UNCHANGED <<managerVars, feedVars, model>>

\* RemoveURL
RemoveURL(url) ==
    /\ LET lines == ReadAllLinesFromPath(urlsFile)
           Keep(line) == ~(line.IsEntry /\ line.URL = url)
       IN  urlsFile' = WriteAllLines(SelectSeq(lines, Keep))
    /\ UNCHANGED <<managerVars, feedVars, model>>

InitURLs ==
    /\ InitManager
    /\ now = 0
    /\ items = {}
    /\ feeds = [id \in {} |-> NoFeed]
    /\ calls = [c \in {} |-> IdleCall]
    /\ model = NewModel
    /\ urlsFile \in Files

NextURLs ==
    \/ \E url \in URLs : AddURL(url)
    \/ \E url \in URLs : RemoveURL(url)

URLsSpec == InitURLs /\ [][NextURLs]_vars

\* RefreshFeed's UpdateFeed after Parse when the database refuses the
\* write: the row stays as ClearFeedError left it and the error is
\* returned.
UpdateFeedParsedErr(c) ==
    /\ Alive
    /\ calls[c].pc = "update"
    /\ calls' = [calls EXCEPT ![c] = Returned(@, ErrUpdateFeed)]
    /\ UNCHANGED <<managerVars, model, urlsFile, now, feeds, items>>

\* The workers with the feed refresh handler over a database whose
\* writes of the feed row may fail.
NextTaskRefreshDB ==
    \/ NextTaskRefresh
    \/ \E w \in WorkerIds : UpdateFeedParsedErr(w)

TaskRefreshDBSpec == InitTaskRefresh /\ [][NextTaskRefreshDB]_vars

\* ------------------------------------------------------------------ claims

RunningTasks == {id \in Created : Status(id) = TaskStatusRunning}

Busy(w) == workers[w].pc \notin {"none", "idle", "exited"}

\* C1: at every instant the number of tasks in status Running is at most
\* the worker count N; Start spawns exactly N workers, and a Start on a
\* running manager adds no goroutine (the goroutines waited for, wg, stay
\* at most N).
C1_RunningAtMostWorkers ==
    /\ Cardinality(RunningTasks) <= maxWorkers
    /\ wg <= maxWorkers
    /\ running => \A w \in WorkerIds : workers[w].pc # "none"

\* C1, its case: every worker runs a task while another task waits.
C1_Witness ==
    /\ Cardinality(RunningTasks) = maxWorkers
    /\ Len(taskQueue) > 0

\* C2: the status of a task only ever changes pending -> running,
\* running -> completed or running -> failed, and a new task is pending.
C2_Transition(id) ==
    IF id \notin Created
    THEN id \in DOMAIN taskObj' => taskObj'[id].Status = TaskStatusPending
    ELSE \/ taskObj'[id].Status = Status(id)
         \/ /\ Status(id) = TaskStatusPending
            /\ taskObj'[id].Status = TaskStatusRunning
         \/ /\ Status(id) = TaskStatusRunning
            /\ taskObj'[id].Status \in {TaskStatusCompleted, TaskStatusFailed}

C2_StatusTransitions == [][\A id \in TaskIds : C2_Transition(id)]_vars

\* C2, its case: after a Stop, one task has ended and has been removed
\* from the table, and another task is running.
C2_Witness ==
    /\ queueClosed
    /\ \E id \in Created : Terminal(id) /\ id \notin tasks
    /\ RunningTasks # {}

Started(id) == <<TaskEventStarted, id>>

TerminalEvents(id) == {<<TaskEventCompleted, id>>, <<TaskEventFailed, id>>}

\* The events publishEvent was called with, placed or dropped.
Sent == published \cup dropped

Rejected == Created \ accepted

Held(id) == \E w \in WorkerIds : workers[w].task = id

InQueue(id) == \E i \in DOMAIN taskQueue : taskQueue[i] = id

\* C5: AddTask on a full queue returns its error at once (the step is
\* taken, nothing waits), the task is in the table as pending and GetTask
\* returns it, the queue is as before; and a task that was not enqueued
\* stays pending for ever: it is in no queue and no worker gets it.
C5_QueueFull ==
    /\ [][(AddTask /\ ~queueClosed /\ Len(taskQueue) = QueueCap) =>
            \A id \in {Len(taskObj) + 1} :
            /\ AddTaskErr = ErrQueueFull
            /\ taskQueue' = taskQueue
            /\ id \in tasks'
            /\ GetTask(id)' =
                   [task |-> [Status |-> TaskStatusPending, Error |-> ""],
                    err |-> ""]
            /\ id \notin accepted']_vars
    /\ [](\A id \in Rejected :
            /\ Status(id) = TaskStatusPending
            /\ ~InQueue(id)
            /\ ~Held(id))
    /\ []((Alive /\ Len(taskObj) < MaxTasks) => ENABLED AddTask)

\* C5, its case: a task was rejected by a full queue, the workers have
\* since drained the queue and are idle, and the task is still in the table.
C5_Witness ==
    /\ Alive
    /\ ~queueClosed
    /\ \E id \in Rejected : id \in tasks
    /\ Len(taskQueue) = 0
    /\ \A w \in WorkerIds : workers[w].pc = "idle"
    /\ \E id \in accepted : Terminal(id)

\* C6: with no subscriber, every queued task still reaches a terminal
\* status, the channel never holds more than EventCap events, and a
\* publish on a full channel drops the event and lets the worker go on.
C6_PublishNeverBlocks ==
    /\ \A id \in TaskIds : (id \in accepted) ~> Terminal(id)
    /\ [](Len(events) <= EventCap)
    /\ [][\A w \in WorkerIds :
            ((PublishStarted(w) \/ PublishTerminal(w))
                /\ Len(events) = EventCap) =>
                /\ events' = events
                /\ dropped' # dropped
                /\ workers'[w].pc # workers[w].pc]_vars
    /\ [](\A w \in WorkerIds :
            workers[w].pc \in {"pubStarted", "pubTerminal"} =>
                ENABLED (PublishStarted(w) \/ PublishTerminal(w)))

\* C6, its case: the channel is full, events were dropped, and every
\* submitted task has ended all the same.
C6_Witness ==
    /\ Len(events) = EventCap
    /\ dropped # {}
    /\ Len(taskObj) = MaxTasks
    /\ \A id \in accepted : Terminal(id)
    /\ \E id \in accepted : TerminalEvents(id) \cap dropped # {}

\* C7: RemoveTask of a running task returns an error and changes neither
\* the table nor the task; of a task of the table in any other status it
\* returns nil, and from then on GetTask fails and ListTasks never holds it.
C7_RemoveTask ==
    /\ [][\A id \in TaskIds :
            (RemoveTask(id) /\ id \in tasks) =>
                IF Status(id) = TaskStatusRunning
                THEN /\ RemoveTaskErr(id) = ErrCannotRemoveRunning
                     /\ UNCHANGED <<tasks, taskObj>>
                ELSE /\ RemoveTaskErr(id) = ""
                     /\ GetTask(id)'.err = ErrTaskNotFound
                     /\ id \notin ListTasks']_vars
    /\ [][\A id \in Created : id \notin ListTasks => id \notin ListTasks']_vars
    /\ [](\A id \in Created :
            /\ (id \in tasks /\ Status(id) = TaskStatusRunning)
                   => RemoveTaskErr(id) # ""
            /\ (id \in tasks /\ Status(id) # TaskStatusRunning)
                   => RemoveTaskErr(id) = "")

\* C7, its case: a pending task was removed while another task, still in
\* the table, is running.
C7_Witness ==
    /\ \E id \in Created : id \notin tasks /\ Status(id) = TaskStatusPending
    /\ \E id \in tasks : Status(id) = TaskStatusRunning

AllExited == \A w \in WorkerIds : workers[w].pc = "exited"

\* C8: Stop is never made to wait (on a running manager it can always be
\* taken, whatever the workers do, and it leaves the stream open); the
\* event stream is closed only when every worker has exited; no worker
\* sends on the closed stream; and after Stop the stream is eventually
\* closed, as long as the process lives.
C8_StreamClosedAfterWorkers ==
    /\ []((Alive /\ running) => ENABLED (StopCall /\ ~running'))
    /\ [][StopCall => (eventsClosed' = eventsClosed /\ workers' = workers)]_vars
    /\ [](eventsClosed => AllExited)
    /\ [](panicked # PanicSendOnClosedEvents)
    /\ (closer = "waiting") ~> (eventsClosed \/ ~Alive)

\* C8, its case: Stop has returned while a worker is inside a handler and
\* the stream is still open.
C8_Witness ==
    /\ ~running
    /\ closer = "waiting"
    /\ ~eventsClosed
    /\ \E w \in WorkerIds : workers[w].pc = "exec"

\* C8, the end of its case: the stream was closed after events were
\* published by tasks that were running at Stop.
C8_ClosedWitness ==
    /\ eventsClosed
    /\ runningAtStop # {}

\* C9: Stop changes no task and no worker; a task that was running at Stop
\* ends completed or failed as its handler returned (as long as the process
\* lives), and when the stream is closed its terminal event has been
\* published.
C9_RunningTaskSurvivesStop ==
    /\ [][StopCall => (taskObj' = taskObj /\ workers' = workers)]_vars
    /\ (runningAtStop # {}) ~>
           ((\A id \in runningAtStop : Terminal(id)) \/ ~Alive)
    /\ [][\A w \in WorkerIds :
            (CompleteTask(w) /\ workers[w].task \in runningAtStop) =>
                taskObj'[workers[w].task].Status =
                    IF workers[w].err = ""
                    THEN TaskStatusCompleted ELSE TaskStatusFailed]_vars
    /\ [](eventsClosed =>
            \A id \in runningAtStop :
                /\ Terminal(id)
                /\ TerminalEvents(id) \cap Sent # {})

\* C9, its case: a task that was inside its handler at Stop has completed,
\* its terminal event was placed in the stream, and the stream is closed.
C9_Witness ==
    /\ eventsClosed
    /\ \E id \in runningAtStop :
           /\ Status(id) = TaskStatusCompleted
           /\ <<TaskEventCompleted, id>> \in published

\* The cache control period as the specification words it: max-age is
\* set, and the time t is before last_updated + max_age.
WithinCachePeriod(feed, t) ==
    /\ feed.CacheControlMaxAge.Valid
    /\ feed.LastUpdated.Valid
    /\ t < feed.LastUpdated.Time + feed.CacheControlMaxAge.Int64

\* C10: when the feed row a call of RefreshFeed read has
\* cache_control_max_age set and the time is before last_updated +
\* max_age, the call returns nil at the check, having sent no HTTP request,
\* and the step changes no feed row and no item row; the check comes before
\* any network I/O: a call that is not past the check has sent no request,
\* and the row it checks is the row as the table still holds it.
C10_CacheShortCircuit ==
    /\ [][\A c \in DOMAIN calls :
            (/\ calls[c].pc = "cacheCheck"
             /\ calls'[c] # calls[c]
             /\ WithinCachePeriod(calls[c].feed, now))
            => /\ calls'[c].pc = "returned"
               /\ calls'[c].err = Nil
               /\ ~calls'[c].req.sent
               /\ feeds' = feeds
               /\ items' = items]_vars
    /\ [](\A c \in DOMAIN calls :
            calls[c].pc \in {"idle", "cacheCheck"} => ~calls[c].req.sent)
    /\ [](\A c \in DOMAIN calls :
            calls[c].pc = "cacheCheck"
            => calls[c].feed = feeds[calls[c].feedID])

\* A call returned nil without a request, for a feed that has items and is
\* still within its cache control period.
C10_Witness ==
    \E c \in DOMAIN calls :
        /\ calls[c].pc = "returned"
        /\ calls[c].err = Nil
        /\ ~calls[c].req.sent
        /\ calls[c].feedID \in DOMAIN feeds
        /\ WithinCachePeriod(feeds[calls[c].feedID], now)
        /\ items # {}

\* The columns of a feed row that recordFeedError does not name.
SameContent(new, old) ==
    /\ new.ID = old.ID
    /\ new.Url = old.Url
    /\ new.Title = old.Title
    /\ new.Description = old.Description
    /\ new.LastUpdated = old.LastUpdated
    /\ new.Etag = old.Etag
    /\ new.LastModified = old.LastModified
    /\ new.CacheControlMaxAge = old.CacheControlMaxAge

Status2xx == 200..299

\* C11: a transport error, or a status that is neither 2xx nor 304, takes
\* the call to recordFeedError with a non-nil error (for a status: "HTTP",
\* the numeric code, the status text); the call then returns that error
\* with last_error set to its text and last_error_time to the time, while
\* title, description, last_updated, etag, last_modified and
\* cache_control_max_age are as GetFeed read them at the start of the call
\* and no item row has changed since the call began.
C11_FailureRecorded ==
    /\ [][\A c \in DOMAIN calls :
            (/\ calls[c].pc = "do"
             /\ calls'[c] # calls[c]
             /\ calls'[c].StatusCode \notin Status2xx \cup {304})
            => /\ calls'[c].pc = "recordFeedError"
               /\ calls'[c].err # Nil
               /\ calls'[c].StatusCode # 0 =>
                      /\ calls'[c].err[1] = "HTTP"
                      /\ calls'[c].err[2] = calls'[c].StatusCode
                      /\ calls'[c].err[3] # ""
               /\ calls'[c].StatusCode = 500 =>
                      calls'[c].err = <<"HTTP", 500, "Internal Server Error">>]_vars
    /\ [][\A c \in DOMAIN calls :
            (/\ calls[c].pc = "recordFeedError"
             /\ calls'[c] # calls[c]
             /\ calls[c].StatusCode \notin Status2xx)
            => /\ calls'[c].pc = "returned"
               /\ calls'[c].err = calls[c].err
               /\ calls'[c].err # Nil
               /\ feeds'[calls[c].feedID].LastError =
                      [String |-> calls[c].err, Valid |-> TRUE]
               /\ feeds'[calls[c].feedID].LastErrorTime =
                      [Time |-> now, Valid |-> TRUE]
               /\ SameContent(feeds'[calls[c].feedID], calls[c].feed)
               /\ items' = items]_vars
    /\ [][\A c \in DOMAIN calls :
            calls[c].pc \in {"cacheCheck", "do"}
            => (feeds' = feeds /\ items' = items)]_vars

\* C11, its case: a call returned the error of a 500 and the row carries
\* it, with the caching headers and the items of an earlier refresh.
C11_Witness ==
    \E c \in DOMAIN calls :
        /\ calls[c].pc = "returned"
        /\ calls[c].err = <<"HTTP", 500, "Internal Server Error">>
        /\ feeds[calls[c].feedID].LastError.Valid
        /\ feeds[calls[c].feedID].LastError.String = calls[c].err
        /\ feeds[calls[c].feedID].LastErrorTime = [Time |-> now, Valid |-> TRUE]
        /\ feeds[calls[c].feedID].Etag.Valid
        /\ feeds[calls[c].feedID].CacheControlMaxAge.Valid
        /\ feeds[calls[c].feedID].LastUpdated.Valid
        /\ items # {}

\* C12: a 304 takes the call to ClearFeedError, which sets last_error and
\* last_error_time to NULL, and then to UpdateFeed, which sets last_updated
\* to the time and writes title, description, etag, last_modified and
\* cache_control_max_age as GetFeed read them at the start of the call; the
\* call returns nil, and no step of it changes an item row.
C12_NotModified ==
    /\ [][\A c \in DOMAIN calls :
            (/\ calls[c].pc = "do"
             /\ calls'[c] # calls[c]
             /\ calls'[c].StatusCode = 304)
            => (calls'[c].pc = "notModified" /\ calls'[c].err = Nil)]_vars
    /\ [][\A c \in DOMAIN calls :
            (calls[c].pc = "notModified" /\ calls'[c] # calls[c])
            => /\ calls'[c].pc = "touch"
               /\ ~feeds'[calls[c].feedID].LastError.Valid
               /\ ~feeds'[calls[c].feedID].LastErrorTime.Valid
               /\ SameContent(feeds'[calls[c].feedID], calls[c].feed)
               /\ items' = items]_vars
    /\ [][\A c \in DOMAIN calls :
            (calls[c].pc = "touch" /\ calls'[c] # calls[c])
            => /\ calls'[c].pc = "returned"
               /\ calls'[c].err = Nil
               /\ feeds'[calls[c].feedID] =
                      [calls[c].feed EXCEPT
                          !.LastUpdated = [Time |-> now, Valid |-> TRUE],
                          !.LastError = [String |-> <<>>, Valid |-> FALSE],
                          !.LastErrorTime = [Time |-> 0, Valid |-> FALSE]]
               /\ items' = items]_vars
    /\ [][\A c \in DOMAIN calls :
            calls[c].pc \in {"cacheCheck", "do", "notModified", "touch"}
            => items' = items]_vars

\* C12, its case: a feed that was added without fetching and has never
\* had a document committed was answered 304 after the clock had moved: the
\* call returned nil, last_updated is the time, the title is still the URL.
C12_Witness ==
    \E c \in DOMAIN calls :
        /\ calls[c].pc = "returned"
        /\ calls[c].err = Nil
        /\ calls[c].req.sent
        /\ now > 0
        /\ feeds[calls[c].feedID].LastUpdated = [Time |-> now, Valid |-> TRUE]
        /\ feeds[calls[c].feedID].Title = FeedURL
        /\ ~feeds[calls[c].feedID].LastError.Valid

\* C13: in every state last_error is NULL exactly when last_error_time
\* is; the step that follows a 304 or a document that parsed sets both to
\* NULL whatever they held, and they are still NULL at every later step of
\* that call and when it returns.
C13_ErrorColumnsTogether ==
    /\ [](\A id \in DOMAIN feeds :
            feeds[id].LastError.Valid <=> feeds[id].LastErrorTime.Valid)
    /\ [][\A c \in DOMAIN calls :
            (calls[c].pc \in {"notModified", "parsed"} /\ calls'[c] # calls[c])
            => /\ feeds'[calls[c].feedID].LastError =
                      [String |-> <<>>, Valid |-> FALSE]
               /\ feeds'[calls[c].feedID].LastErrorTime =
                      [Time |-> 0, Valid |-> FALSE]]_vars
    /\ [][\A c \in DOMAIN calls :
            (calls[c].pc \in {"touch", "update", "upsert"})
            => /\ ~feeds[calls[c].feedID].LastError.Valid
               /\ ~feeds[calls[c].feedID].LastErrorTime.Valid
               /\ ~feeds'[calls[c].feedID].LastError.Valid
               /\ ~feeds'[calls[c].feedID].LastErrorTime.Valid
               /\ calls'[c].pc \in {"touch", "update", "upsert", "returned"}
               /\ calls'[c].err = Nil]_vars

\* C13, its case: the row carried an error when the call read it, the
\* origin answered with a document that parsed, and both columns are NULL.
C13_Witness ==
    \E c \in DOMAIN calls :
        /\ calls[c].pc = "update"
        /\ calls[c].feed.LastError.Valid
        /\ calls[c].feed.LastErrorTime.Valid
        /\ ~feeds[calls[c].feedID].LastError.Valid
        /\ ~feeds[calls[c].feedID].LastErrorTime.Valid

\* C13, its other case: the same after a 304.
C13_WitnessNotModified ==
    \E c \in DOMAIN calls :
        /\ calls[c].pc = "touch"
        /\ calls[c].feed.LastError.Valid
        /\ ~feeds[calls[c].feedID].LastError.Valid
        /\ ~feeds[calls[c].feedID].LastErrorTime.Valid

\* C14: at no moment is a feed row both fresh (cache_control_max_age set
\* and now before last_updated plus max-age) and carrying a last_error.
\* Two overlapping refreshes of one feed break it: the error columns and
\* last_updated are written in separate critical sections, by calls that
\* each decided on the row they read earlier.
C14_NeverFreshWithError ==
    \A id \in DOMAIN feeds :
        ~(WithinCachePeriod(feeds[id], now) /\ feeds[id].LastError.Valid)

\* C15: a 2xx response whose body does not parse takes the call to
\* recordFeedError with the parser's error; the call then returns that
\* error with last_error set to its text and last_error_time to the time,
\* and nothing of the response is committed: etag, last_modified,
\* cache_control_max_age, title, description and last_updated are as
\* GetFeed read them and as they were before the step, and no item row
\* changes. A call reaches the commit only with a document that parsed.
C15_ParseFailureCommitsNothing ==
    /\ [][\A c \in DOMAIN calls :
            (/\ calls[c].pc = "do"
             /\ calls'[c] # calls[c]
             /\ calls'[c].StatusCode \in Status2xx)
            => /\ calls'[c].pc \in {"recordFeedError", "parsed"}
               /\ calls'[c].pc = "recordFeedError"
                      <=> calls'[c].parsedFeed = Malformed
               /\ calls'[c].err = Parse(calls'[c].parsedFeed).err
               /\ feeds' = feeds
               /\ items' = items]_vars
    /\ [][\A c \in DOMAIN calls :
            (/\ calls[c].pc = "recordFeedError"
             /\ calls'[c] # calls[c]
             /\ calls[c].StatusCode \in Status2xx)
            => /\ calls[c].err = ErrParse
               /\ calls'[c].pc = "returned"
               /\ calls'[c].err = ErrParse
               /\ feeds'[calls[c].feedID].LastError =
                      [String |-> ErrParse, Valid |-> TRUE]
               /\ feeds'[calls[c].feedID].LastErrorTime =
                      [Time |-> now, Valid |-> TRUE]
               /\ SameContent(feeds'[calls[c].feedID], calls[c].feed)
               /\ SameContent(feeds'[calls[c].feedID],
                              feeds[calls[c].feedID])
               /\ items' = items]_vars
    /\ [](\A c \in DOMAIN calls :
            calls[c].pc \in {"parsed", "update", "upsert"}
            => calls[c].parsedFeed \in DOMAIN Docs)

\* C15, its case: the call returned the parser's error and the row carries
\* it, while the headers and the items of an earlier refresh are in place.
C15_Witness ==
    \E c \in DOMAIN calls :
        /\ calls[c].pc = "returned"
        /\ calls[c].err = ErrParse
        /\ feeds[calls[c].feedID].LastError =
               [String |-> ErrParse, Valid |-> TRUE]
        /\ feeds[calls[c].feedID].LastErrorTime = [Time |-> now, Valid |-> TRUE]
        /\ feeds[calls[c].feedID].Etag.Valid
        /\ feeds[calls[c].feedID].LastModified.Valid
        /\ feeds[calls[c].feedID].LastUpdated.Valid
        /\ feeds[calls[c].feedID].LastUpdated.Time < now
        /\ items # {}

\* The max-age a Cache-Control header carries: the number of its first
\* max-age directive that has one, when there is such a directive.
MaxAgeDirectives(cacheControl) ==
    {i \in 1..Len(cacheControl) :
        cacheControl[i].name = "max-age=" /\ cacheControl[i].numeric}

\* C16: a 200 response whose body parses gives the call the ETag and
\* Last-Modified of this response (unset when the header is absent) and
\* the max-age of its Cache-Control (unset when there is no Cache-Control
\* or none of its directives is a numeric max-age); clearing the error
\* changes nothing else; the commit then leaves the row with the
\* document's title and description, last_updated at the time, no error,
\* and etag, last_modified and cache_control_max_age exactly those of the
\* response, whatever was stored before; the item loop leaves the row so.
C16_ParsedCommit ==
    /\ [][\A c \in DOMAIN calls :
            (calls[c].pc = "do" /\ calls'[c] # calls[c])
            => \A resp \in Responses :
            (/\ resp.err = Nil
             /\ resp.StatusCode = 200
             /\ resp.Body \in DOMAIN Docs
             /\ Do(c, resp))
            => /\ calls'[c].pc = "parsed"
               /\ calls'[c].parsedFeed = resp.Body
               /\ calls'[c].etag.Valid <=> resp.ETag # ""
               /\ calls'[c].etag.String = resp.ETag
               /\ calls'[c].lastModified.Valid <=> resp.LastModified # ""
               /\ calls'[c].lastModified.String = resp.LastModified
               /\ calls'[c].cacheControlMaxAge.Valid
                      <=> MaxAgeDirectives(resp.CacheControl) # {}
               /\ \A i \in MaxAgeDirectives(resp.CacheControl) :
                      (\A j \in MaxAgeDirectives(resp.CacheControl) : i <= j)
                      => calls'[c].cacheControlMaxAge.Int64 =
                             resp.CacheControl[i].val]_vars
    /\ [][\A c \in DOMAIN calls :
            (calls[c].pc = "parsed" /\ calls'[c] # calls[c])
            => /\ calls'[c].pc = "update"
               /\ calls'[c].etag = calls[c].etag
               /\ calls'[c].lastModified = calls[c].lastModified
               /\ calls'[c].cacheControlMaxAge = calls[c].cacheControlMaxAge
               /\ calls'[c].parsedFeed = calls[c].parsedFeed
               /\ SameContent(feeds'[calls[c].feedID],
                              feeds[calls[c].feedID])]_vars
    /\ [][\A c \in DOMAIN calls :
            (calls[c].pc = "update" /\ calls'[c] # calls[c])
            => /\ feeds'[calls[c].feedID] =
                      [ID |-> calls[c].feedID,
                       Url |-> calls[c].feed.Url,
                       Title |-> Docs[calls[c].parsedFeed].Title,
                       Description |-> Docs[calls[c].parsedFeed].Description,
                       LastUpdated |-> [Time |-> now, Valid |-> TRUE],
                       LastError |-> [String |-> <<>>, Valid |-> FALSE],
                       LastErrorTime |-> [Time |-> 0, Valid |-> FALSE],
                       Etag |-> calls[c].etag,
                       LastModified |-> calls[c].lastModified,
                       CacheControlMaxAge |-> calls[c].cacheControlMaxAge]
               /\ ~calls[c].etag.Valid
                      => ~feeds'[calls[c].feedID].Etag.Valid
               /\ ~calls[c].lastModified.Valid
                      => ~feeds'[calls[c].feedID].LastModified.Valid
               /\ ~calls[c].cacheControlMaxAge.Valid
                      => ~feeds'[calls[c].feedID].CacheControlMaxAge.Valid
               /\ calls'[c].pc \in {"upsert", "returned"}
               /\ calls'[c].err = Nil]_vars
    /\ [][\A c \in DOMAIN calls :
            calls[c].pc = "upsert"
            => /\ feeds' = feeds
               /\ calls'[c].pc \in {"upsert", "returned"}
               /\ calls'[c].err = Nil]_vars

\* C16, its case: the row held an etag, a last_modified and a max-age when
\* the call began; the response carried none of them, and after the commit
\* the row holds none, with the document's title and the time.
C16_Witness ==
    \E c \in DOMAIN calls :
        /\ calls[c].pc = "upsert"
        /\ calls[c].feed.Etag.Valid
        /\ calls[c].feed.LastModified.Valid
        /\ calls[c].feed.CacheControlMaxAge.Valid
        /\ feeds[calls[c].feedID].Etag = [String |-> "", Valid |-> FALSE]
        /\ feeds[calls[c].feedID].LastModified =
               [String |-> "", Valid |-> FALSE]
        /\ ~feeds[calls[c].feedID].CacheControlMaxAge.Valid
        /\ feeds[calls[c].feedID].Title = Docs[calls[c].parsedFeed].Title
        /\ feeds[calls[c].feedID].Title # calls[c].feed.Title
        /\ feeds[calls[c].feedID].LastUpdated = [Time |-> now, Valid |-> TRUE]
        /\ calls[c].feed.LastUpdated.Time < now
        /\ ~feeds[calls[c].feedID].LastError.Valid

\* C17: the table items holds at most one row for a (feed_id, guid) pair
\* and one row for an id, whichever refreshes, one after another or
\* overlapping, wrote it; an UpsertItem of a guid the table holds leaves
\* the row count and the row's id as they were and gives the row the
\* title, description, content, link and published time of the item
\* ingested; an UpsertItem of a new guid adds one row and touches no other.
C17_OneRowPerGuid ==
    /\ [](\A r1 \in items : \A r2 \in items :
            (\/ (r1.FeedID = r2.FeedID /\ r1.Guid = r2.Guid)
             \/ r1.ID = r2.ID)
            => r1 = r2)
    /\ [][\A c \in DOMAIN calls :
            (calls[c].pc = "upsert" /\ calls'[c] # calls[c] /\ items' # items)
            => LET item == Docs[calls[c].parsedFeed].Items[calls[c].i]
                   old == {r \in items : /\ r.FeedID = calls[c].feedID
                                         /\ r.Guid = item.GUID}
                   new == {r \in items' : /\ r.FeedID = calls[c].feedID
                                          /\ r.Guid = item.GUID}
               IN  /\ Cardinality(new) = 1
                   /\ \A r \in new :
                        /\ r.Title = item.Title
                        /\ r.Description = itemDescription(item)
                        /\ r.Content = itemContent(item)
                        /\ r.Link = item.Link
                        /\ r.Published = item.PublishedParsed
                        /\ \A o \in old : r.ID = o.ID
                        /\ old = {} => \A o \in items : r.ID # o.ID
                   /\ items' \ new = items \ old
                   /\ Cardinality(items') =
                          Cardinality(items) + (IF old = {} THEN 1 ELSE 0)]_vars
    /\ [][\A r \in items : \E r2 \in items' :
            /\ r2.ID = r.ID
            /\ r2.FeedID = r.FeedID
            /\ r2.Guid = r.Guid]_vars

\* C17, its case: a call is about to ingest a guid whose row, written by
\* an earlier ingest, has other content, while another call is in its own
\* item loop.
C17_Witness ==
    \E c \in DOMAIN calls : \E d \in DOMAIN calls :
        /\ c # d
        /\ calls[c].pc = "upsert"
        /\ calls[d].pc = "upsert"
        /\ Cardinality(items) = 2
        /\ LET item == Docs[calls[c].parsedFeed].Items[calls[c].i] IN
           \E r \in items :
               /\ r.FeedID = calls[c].feedID
               /\ r.Guid = item.GUID
               /\ r.Title # item.Title
               /\ r.Content # itemContent(item)

\* The rows hold, for the item, a row of the feed with the item's guid
\* and the fields RefreshFeed stores for it.
ItemIngested(rows, feedID, item) ==
    \E r \in rows :
        /\ r.FeedID = feedID
        /\ r.Guid = item.GUID
        /\ r.Title = item.Title
        /\ r.Description = itemDescription(item)
        /\ r.Content = itemContent(item)
        /\ r.Link = item.Link
        /\ r.Published = item.PublishedParsed

\* The table is as a refresh against the document leaves it.
Ingested(feedID, doc) ==
    \A k \in 1..Len(Docs[doc].Items) :
        ItemIngested(items, feedID, Docs[doc].Items[k])

\* C18: an UpsertItem that writes leaves the item ingested and every other
\* item of the document as it was, so a refresh whose writes succeed
\* leaves the document ingested; and a refresh against a document that is
\* ingested already changes no item row at any of its steps, whether it
\* ends at the cache check, at a 304 or after the item loop: the item rows
\* after the second refresh are those after the first.
C18_RefreshTwice ==
    /\ [][\A c \in DOMAIN calls :
            (calls[c].pc = "upsert" /\ calls'[c] # calls[c] /\ items' # items)
            => LET parsedFeed == Docs[calls[c].parsedFeed] IN
               /\ ItemIngested(items', calls[c].feedID,
                               parsedFeed.Items[calls[c].i])
               /\ \A k \in 1..Len(parsedFeed.Items) :
                     (/\ k # calls[c].i
                      /\ ItemIngested(items, calls[c].feedID,
                                      parsedFeed.Items[k]))
                     => ItemIngested(items', calls[c].feedID,
                                     parsedFeed.Items[k])]_vars
    /\ [][\A c \in DOMAIN calls :
            (/\ calls[c].pc \in {"parsed", "update", "upsert"}
             /\ Ingested(calls[c].feedID, calls[c].parsedFeed))
            => /\ items' = items
               /\ calls'[c].pc \in {"parsed", "update", "upsert", "returned"}
               /\ calls'[c].pc = "returned" => calls'[c].err = Nil]_vars
    /\ [][(\A c \in DOMAIN calls : calls[c].pc # "upsert")
            => items' = items]_vars

\* C18, its case: the second document is ingested, both of its rows are in
\* the table, and a later refresh against it is at its last item.
C18_Witness ==
    \E c \in DOMAIN calls :
        /\ calls[c].pc = "upsert"
        /\ calls[c].parsedFeed = 2
        /\ calls[c].i = Len(Docs[2].Items)
        /\ Ingested(calls[c].feedID, 2)
        /\ Cardinality(items) = 2
        /\ calls[c].feed.Title = Docs[2].Title
        /\ calls[c].feed.LastUpdated.Valid
        /\ calls[c].feed.LastUpdated.Time < now

\* The origin answered the refresh of worker w with status code: the call
\* is about to record the error.
AnsweredWith(w, code) ==
    /\ workers[w].pc = "exec"
    /\ calls[w].pc = "recordFeedError"
    /\ calls[w].StatusCode = code

\* C19: when the origin answers the refresh of a task with 500 (or 404),
\* the task ends failed with Task.Error the text of the wrapped error and
\* its failed event has been handed to the stream; on the way, the call
\* leaves last_error with the numeric code and last_error_time set and
\* returns the error, Execute returns it wrapped, completeTaskWithError
\* writes the status and the text, and the failed event sent carries the
\* task's id and the same text (it is in the stream unless the buffer is
\* full).
C19_ErrorStatusFailsTask ==
    /\ \A id \in TaskIds : \A code \in {500} :
          (\E w \in WorkerIds : workers[w].task = id /\ AnsweredWith(w, code))
          ~> (/\ id \in Created
              /\ Status(id) = TaskStatusFailed
              /\ taskObj[id].Error = FeedRefreshFailed(ErrHTTP(code))
              /\ taskObj[id].Error # ""
              /\ <<TaskEventFailed, id>> \in published \cup dropped)
    /\ [][\A w \in WorkerIds : \A code \in {404, 500} :
            (AnsweredWith(w, code) /\ calls'[w] # calls[w])
            => /\ calls'[w].pc = "returned"
               /\ calls'[w].err = ErrHTTP(code)
               /\ feeds'[calls[w].feedID].LastError.Valid
               /\ feeds'[calls[w].feedID].LastError.String[2] = code
               /\ feeds'[calls[w].feedID].LastErrorTime =
                      [Time |-> now, Valid |-> TRUE]]_vars
    /\ [][\A w \in WorkerIds :
            (/\ workers[w].pc = "exec"
             /\ workers'[w].pc # "exec")
            => /\ calls[w].pc = "returned"
               /\ workers'[w].pc = "complete"
               /\ workers'[w].task = workers[w].task
               /\ workers'[w].err = FeedRefreshFailed(calls[w].err)
               /\ calls[w].err # Nil => workers'[w].err # ""]_vars
    /\ [][\A w \in WorkerIds :
            (/\ workers[w].pc = "complete"
             /\ workers'[w].pc # "complete"
             /\ workers[w].err # "")
            => /\ taskObj'[workers[w].task].Status = TaskStatusFailed
               /\ taskObj'[workers[w].task].Error = workers[w].err
               /\ workers'[w].pc = "pubTerminal"
               /\ workers'[w].err = workers[w].err
               /\ workers'[w].task = workers[w].task]_vars
    /\ [][\A w \in WorkerIds :
            (/\ workers[w].pc = "pubTerminal"
             /\ workers'[w].pc # "pubTerminal"
             /\ workers[w].err # "")
            => LET id == workers[w].task IN
               /\ Status(id) = TaskStatusFailed
               /\ taskObj[id].Error = workers[w].err
               /\ IF Len(events) < EventCap
                  THEN /\ events' = Append(events,
                              [Type |-> TaskEventFailed, TaskID |-> id,
                               TaskType |-> TaskTypeFeedRefresh,
                               Status |-> TaskStatusFailed,
                               Error |-> taskObj[id].Error])
                       /\ <<TaskEventFailed, id>> \in published'
                  ELSE /\ events' = events
                       /\ <<TaskEventFailed, id>> \in dropped']_vars

\* C19, its case: a task is failed with the text of the wrapped 500, its
\* failed event with that text is in the stream, and the row of the feed
\* carries the error with the code and the time it was recorded.
C19_Witness ==
    \E id \in Created :
        /\ Status(id) = TaskStatusFailed
        /\ taskObj[id].Error =
               "feed refresh failed: HTTP 500: Internal Server Error"
        /\ \E k \in DOMAIN events :
               /\ events[k].Type = TaskEventFailed
               /\ events[k].TaskID = id
               /\ events[k].Error = taskObj[id].Error
        /\ \E f \in DOMAIN feeds :
               /\ feeds[f].LastError.Valid
               /\ feeds[f].LastError.String[2] = 500
               /\ feeds[f].LastErrorTime = [Time |-> now, Valid |-> TRUE]

\* The feeds whose refresh the orchestrator started and whose completion
\* Update has not processed: the command runs, or its FeedRefreshCompleteMsg
\* is on its way.
Outstanding ==
    {id \in 1..MaxFeeds :
        \/ RefreshFeedAndReloadCmd(id) \in model.cmds
        \/ FeedRefreshCompleteCmd(id) \in model.cmds}

C23_NoHandlerFailsTask ==
    /\ [][\A w \in WorkerIds :
            (/\ workers[w].pc = "lookup"
             /\ workers'[w] # workers[w]
             /\ handlers[TaskTypeFeedRefresh] = NoHandler)
            => /\ Status(workers[w].task) = TaskStatusRunning
               /\ <<TaskEventStarted, workers[w].task>>
                      \in published \cup dropped
               /\ workers'[w].pc = "complete"
               /\ workers'[w].err = ErrNoHandlerFound
               /\ workers'[w].task = workers[w].task
               /\ panicked' = ""]_vars
    /\ [][\A w \in WorkerIds :
            (/\ workers[w].pc = "complete"
             /\ workers'[w] # workers[w]
             /\ workers[w].err = ErrNoHandlerFound)
            => /\ taskObj'[workers[w].task].Status = TaskStatusFailed
               /\ taskObj'[workers[w].task].Error = ErrNoHandlerFound
               /\ workers'[w].pc = "pubTerminal"
               /\ workers'[w].err = ErrNoHandlerFound
               /\ panicked' = ""]_vars
    /\ [][\A w \in WorkerIds :
            (/\ workers[w].pc = "pubTerminal"
             /\ workers'[w] # workers[w]
             /\ workers[w].err = ErrNoHandlerFound)
            => /\ <<TaskEventFailed, workers[w].task>>
                      \in published' \cup dropped'
               /\ Status(workers[w].task) = TaskStatusFailed
               /\ workers'[w] = IdleWorker
               /\ panicked' = ""]_vars
    /\ [](\A w \in WorkerIds :
            (Alive /\ workers[w].pc = "idle" /\ Len(taskQueue) > 0)
            => ENABLED WorkerReceive(w))

\* C23, its case: a task failed for want of a handler, and the worker
\* that ran it has taken the next task.
C23_Witness ==
    \E id \in Created : \E w \in WorkerIds :
        /\ Status(id) = TaskStatusFailed
        /\ taskObj[id].Error = ErrNoHandlerFound
        /\ <<TaskEventStarted, id>> \in published
        /\ <<TaskEventFailed, id>> \in published
        /\ Alive
        /\ workers[w].task \in Created
        /\ workers[w].task > id
        /\ Status(workers[w].task) = TaskStatusRunning

\* C24: the first RegisterHandler call for the task type returns nil and
\* binds its handler; every later call returns the "already exists" error
\* and changes nothing, so the binding is the first call's handler for
\* good, and a worker that executes a task executes that handler.
C24_FirstHandlerStays ==
    /\ [](\A i \in DOMAIN registered :
            registered[i][2] = IF i = 1 THEN "" ELSE ErrHandlerExists)
    /\ [](handlers[TaskTypeFeedRefresh] =
            IF registered = <<>> THEN NoHandler ELSE registered[1][1])
    /\ [][handlers[TaskTypeFeedRefresh] # NoHandler
            => handlers' = handlers]_vars
    /\ [](\A w \in WorkerIds :
            workers[w].pc = "exec"
            => /\ registered # <<>>
               /\ workers[w].handler = registered[1][1])

\* C24, its case: a second registration, of another handler, was refused
\* and a worker executes the first one.
C24_Witness ==
    /\ Len(registered) >= 2
    /\ registered[2][1] # registered[1][1]
    /\ registered[2][2] = ErrHandlerExists
    /\ \E w \in WorkerIds :
         /\ workers[w].pc = "exec"
         /\ workers[w].handler = registered[1][1]

\* C25: a call of ClearFailedTasks deletes from the task table the tasks
\* whose status is failed and no other: every pending, running or
\* completed task stays, and the Task objects, the queue, the event
\* stream and what was published to it are as before.
C25_ClearsOnlyFailed ==
    [][ClearFailedTasks
       => /\ \A id \in tasks :
               id \in tasks' <=> Status(id) \in {TaskStatusPending,
                                                TaskStatusRunning,
                                                TaskStatusCompleted}
          /\ tasks' \subseteq tasks
          /\ taskObj' = taskObj
          /\ taskQueue' = taskQueue
          /\ events' = events
          /\ published' = published
          /\ dropped' = dropped
          /\ workers' = workers]_vars

\* C25, its case: the failed task is gone from the table, the completed
\* one is still there, and the stream still holds its event.
C25_Witness ==
    \E id \in Created \ tasks : \E other \in tasks :
        /\ Status(id) = TaskStatusFailed
        /\ Status(other) = TaskStatusCompleted
        /\ events # <<>>

\* C26: AddURL of a URL the file does not hold leaves the file's old lines
\* as they were and puts one line, the URL, after them; RemoveURL leaves
\* the file's old lines but the entries of the removed URL, each as it
\* was and in the old order.
C26_LinesPreserved ==
    /\ [][\A url \in URLs :
            (AddURL(url) /\ ~HasURL(ReadAllLinesFromPath(urlsFile), url))
            => urlsFile' = Append(urlsFile, url)]_vars
    /\ [][\A url \in URLs :
            RemoveURL(url)
            => urlsFile' =
                 SelectSeq(urlsFile,
                           LAMBDA rawLine :
                               ~(/\ ReadLine(rawLine).IsEntry
                                 /\ ReadLine(rawLine).URL = url))]_vars

\* The terminal events of task id handed to publishEvent so far.
TerminalPublished(id) == TerminalEvents(id) \cap (published \cup dropped)

\* C27: what executeTask got, nil, the handler's error or the missing
\* handler's error, decides the task's end: completed with no error text
\* for nil, failed with the error's text otherwise.  Each execution
\* hands publishEvent one terminal event, of the type, status and error
\* text of the task, and no task has two.
C27_TerminalMirrorsOutcome ==
    /\ [][\A w \in WorkerIds :
            (workers[w].pc = "complete" /\ workers'[w] # workers[w])
            => LET task == taskObj'[workers[w].task]
               IN  /\ task.Status = TaskStatusCompleted <=> workers[w].err = ""
                   /\ task.Status = TaskStatusFailed <=> workers[w].err # ""
                   /\ task.Error = workers[w].err
                   /\ workers[w].err \in {"", ErrExecute, ErrNoHandlerFound}
                   /\ workers[w].err = ErrNoHandlerFound
                          <=> workers[w].handler = NoHandler
                   /\ workers'[w].err = workers[w].err
                   /\ TerminalPublished(workers[w].task) = {}]_vars
    /\ [][\A w \in WorkerIds :
            (workers[w].pc = "pubTerminal" /\ workers'[w] # workers[w])
            => LET id == workers[w].task
                   type == IF Status(id) = TaskStatusCompleted
                           THEN TaskEventCompleted
                           ELSE TaskEventFailed
               IN  /\ Terminal(id)
                   /\ taskObj' = taskObj
                   /\ (published' \cup dropped') \ (published \cup dropped)
                          = {<<type, id>>}
                   /\ events' # events
                          => events' = Append(events,
                                 TaskEvent(type, id, Status(id),
                                           taskObj[id].Error))]_vars
    /\ [](\A id \in Created :
            /\ Cardinality(TerminalPublished(id)) <= 1
            /\ <<TaskEventCompleted, id>> \in published \cup dropped
                   => Status(id) = TaskStatusCompleted
            /\ <<TaskEventFailed, id>> \in published \cup dropped
                   => Status(id) = TaskStatusFailed
            /\ (/\ Terminal(id)
                /\ \A w \in WorkerIds :
                       ~(workers[w].pc = "pubTerminal" /\ workers[w].task = id))
               => Cardinality(TerminalPublished(id)) = 1)

\* C27, its case: one task completed and one failed with the handler's
\* error, each with its one terminal event in the stream's history.
C27_Witness ==
    \E id \in Created : \E other \in Created :
        /\ Status(id) = TaskStatusCompleted
        /\ taskObj[id].Error = ""
        /\ TerminalPublished(id) = {<<TaskEventCompleted, id>>}
        /\ Status(other) = TaskStatusFailed
        /\ taskObj[other].Error = ErrExecute
        /\ TerminalPublished(other) = {<<TaskEventFailed, other>>}

\* C28: when a worker publishes the failed event of a refresh task, the
\* row of the feed holds an error text.
C28_FailedTaskLeavesError ==
    [][\A w \in WorkerIds :
          (/\ workers[w].pc = "pubTerminal"
           /\ workers'[w] # workers[w]
           /\ Status(workers[w].task) = TaskStatusFailed)
          => \A id \in FeedIds : feeds[id].LastError # NoText]_vars

\* C29, as stated: after client.Do returned a response, a status other
\* than 200 and 304 takes the call to recordFeedError with the error of
\* the numeric code and its status text, and only a 200 goes on to the
\* parsed document.
C29_Only200Parses ==
    [][\A c \in SingleCaller :
          (/\ calls[c].pc = "do"
           /\ calls'[c] # calls[c]
           /\ calls'[c].StatusCode # 0)
          => /\ calls'[c].StatusCode \notin {200, 304}
                 => /\ calls'[c].pc = "recordFeedError"
                    /\ calls'[c].err = ErrHTTP(calls'[c].StatusCode)
             /\ calls'[c].pc = "parsed"
                 => calls'[c].StatusCode = 200]_vars

\* C29, amended: a status below 200 or above 299 other than 304 takes
\* the call to recordFeedError with the error "HTTP", the numeric code and
\* its status text, which the call returns; every status from 200 to 299
\* takes the parse branch, where the call goes on with the parsed document
\* or, when the body does not parse, records the parser's error.
C29_Only2xxParses ==
    /\ [][\A c \in SingleCaller :
            (/\ calls[c].pc = "do"
             /\ calls'[c] # calls[c]
             /\ calls'[c].StatusCode # 0)
            => LET StatusCode == calls'[c].StatusCode IN
               /\ (StatusCode \notin 200..299 /\ StatusCode # 304)
                   => /\ calls'[c].pc = "recordFeedError"
                      /\ calls'[c].err = <<"HTTP", StatusCode,
                                           StatusText(StatusCode)>>
               /\ StatusCode \in 200..299
                   => \/ /\ calls'[c].pc = "parsed"
                         /\ calls'[c].err = Nil
                         /\ Parse(calls'[c].parsedFeed).err = Nil
                      \/ /\ calls'[c].pc = "recordFeedError"
                         /\ calls'[c].err = ErrParse
                         /\ Parse(calls'[c].parsedFeed).err = ErrParse
               /\ StatusCode = 304 => calls'[c].pc = "notModified"]_vars
    /\ [][\A c \in SingleCaller :
            (calls[c].pc = "recordFeedError" /\ calls'[c] # calls[c])
            => /\ calls'[c].pc = "returned"
               /\ calls'[c].err = calls[c].err
               /\ calls[c].err # Nil]_vars

\* C29, its case: the row carries the error of a 500, and the next call
\* was answered 203 and stands at the parsed document.
C29_Witness ==
    \E c \in SingleCaller :
        /\ calls[c].pc = "parsed"
        /\ calls[c].StatusCode = 203
        /\ feeds[calls[c].feedID].LastError = NullString(ErrHTTP(500))

\* C30: the request client.Do sends has If-None-Match set exactly when the
\* feed's row holds a non-empty etag, and then to that etag, and
\* If-Modified-Since set exactly when the row holds a non-empty
\* last_modified, and then to that value; with neither stored, neither
\* header is set.
C30_ConditionalHeaders ==
    [][\A c \in SingleCaller :
          (calls[c].pc = "do" /\ calls'[c] # calls[c])
          => LET feed == feeds[calls[c].feedID]
                 req == calls'[c].req
             IN  /\ req.sent
                 /\ req.IfNoneMatch # ""
                        <=> (feed.Etag.Valid /\ feed.Etag.String # "")
                 /\ req.IfNoneMatch # ""
                        => req.IfNoneMatch = feed.Etag.String
                 /\ req.IfModifiedSince # ""
                        <=> (/\ feed.LastModified.Valid
                             /\ feed.LastModified.String # "")
                 /\ req.IfModifiedSince # ""
                        => req.IfModifiedSince = feed.LastModified.String
                 /\ (~feed.Etag.Valid /\ ~feed.LastModified.Valid)
                        => req = Request(TRUE, "", "")]_vars

\* C30, its case: a request went out with both headers, the values of the
\* row, and was answered 304.
C30_Witness ==
    \E c \in SingleCaller :
        /\ calls[c].pc = "notModified"
        /\ calls[c].req.sent
        /\ calls[c].req.IfNoneMatch = "etag-1"
        /\ calls[c].req.IfNoneMatch = feeds[calls[c].feedID].Etag.String
        /\ calls[c].req.IfModifiedSince
               = feeds[calls[c].feedID].LastModified.String
        /\ calls[c].req.IfModifiedSince # ""

\* C31: while RefreshFeed upserts the items, the feed row holds the title,
\* description and cache headers committed before the loop; an upsert
\* that fails (the item rows stay as they were) leaves the feed row as
\* committed, the loop goes on with the next item, and after the last item
\* the call returns nil.
C31_UpsertFailureGoesOn ==
    /\ [](\A c \in SingleCaller :
            calls[c].pc = "upsert"
            => LET feed == feeds[calls[c].feedID]
                   parsedFeed == Docs[calls[c].parsedFeed]
               IN  /\ feed.Title = parsedFeed.Title
                   /\ feed.Description = parsedFeed.Description
                   /\ feed.Etag = calls[c].etag
                   /\ feed.LastModified = calls[c].lastModified
                   /\ feed.CacheControlMaxAge = calls[c].cacheControlMaxAge)
    /\ [][\A c \in SingleCaller :
            (calls[c].pc = "upsert" /\ calls'[c] # calls[c])
            => LET n == Len(Docs[calls[c].parsedFeed].Items) IN
               /\ feeds' = feeds
               /\ calls[c].i < n
                      => /\ calls'[c].pc = "upsert"
                         /\ calls'[c].i = calls[c].i + 1
                         /\ calls'[c].parsedFeed = calls[c].parsedFeed
               /\ calls[c].i = n
                      => /\ calls'[c].pc = "returned"
                         /\ calls'[c].err = Nil]_vars

\* C31, its case: the second edition was committed, the upsert of its
\* first item failed, the second item is in the table all the same, and
\* the call has returned nil.
C31_Witness ==
    \E c \in SingleCaller :
        /\ calls[c].pc = "returned"
        /\ calls[c].err = Nil
        /\ feeds[calls[c].feedID].Title = Docs[2].Title
        /\ \E r \in items : r.FeedID = calls[c].feedID /\ r.Guid = "g2"
        /\ \A r \in items : r.Guid # "g1"

\* C38: no step of RefreshFeed, whatever the outcome, takes a
\* (feed_id, guid) pair out of the table items: the pairs stored after a
\* step include the pairs stored before it.
C38_ItemsNeverRemoved ==
    [][{<<r.FeedID, r.Guid>> : r \in items}
           \subseteq {<<r.FeedID, r.Guid>> : r \in items'}]_vars

\* C38, its case: the document committed last is the first edition, which
\* has no item g2, and the row of g2 is still in the table.
C38_Witness ==
    \E c \in SingleCaller :
        /\ calls[c].pc = "returned"
        /\ calls[c].err = Nil
        /\ feeds[calls[c].feedID].Title = Docs[1].Title
        /\ \E r \in items : r.FeedID = calls[c].feedID /\ r.Guid = "g2"

\* C32: run one after the other, a call answered 304 finds in the row
\* what the call before it committed and writes the same title,
\* description, etag, last_modified and cache_control_max_age back; so
\* with two calls overlapping, the UpdateFeed of a 304 changes none of
\* these columns of the row.
C32_NotModifiedKeepsCommitted ==
    [][\A c \in Callers :
          (calls[c].pc = "touch" /\ calls'[c] # calls[c])
          => LET old == feeds[calls[c].feedID]
                 new == feeds'[calls[c].feedID]
             IN  /\ new.Title = old.Title
                 /\ new.Description = old.Description
                 /\ new.Etag = old.Etag
                 /\ new.LastModified = old.LastModified
                 /\ new.CacheControlMaxAge = old.CacheControlMaxAge]_vars

\* C33: a task that RemoveTask took out of the table while it was pending
\* stays pending: no worker marks it running and no started or terminal
\* event of it is handed to the stream.
C33_RemovedPendingNeverRuns ==
    [][\A id \in Created :
          (id \notin tasks /\ Status(id) = TaskStatusPending)
          => /\ taskObj'[id].Status = TaskStatusPending
             /\ <<TaskEventStarted, id>> \notin published' \cup dropped'
             /\ TerminalEvents(id) \cap (published' \cup dropped') = {}]_vars

\* C34: once Stop has cancelled the context and closed the queue, no
\* pending task becomes running.
C34_NoStartAfterStop ==
    [][\A id \in Created :
          (queueClosed /\ Status(id) = TaskStatusPending)
          => taskObj'[id].Status = TaskStatusPending]_vars

\* C35: AddTask on a stopped manager does not end the process: the panic
\* of a send on the closed queue never happens.
C35_AddTaskAfterStopFails == panicked # PanicSendOnClosedQueue

\* C40: Stop on a manager that is not running (never started, or already
\* stopped) returns the error "task manager is not running" and changes
\* nothing else; whatever the order of two Stop calls, the task queue and
\* the event stream are closed at most once, so no close of a closed
\* channel happens and at most one goroutine waits to close the stream.
C40_StopWhenNotRunning ==
    /\ [][(stops' # stops /\ ~running)
            => /\ stops' = Append(stops, ErrNotRunning)
               /\ UNCHANGED <<running, ctxDone, queueClosed, eventsClosed,
                              closer, panicked, tasks, taskObj, taskQueue,
                              handlers, events, workers>>]_vars
    /\ [][(stops' # stops /\ running) => stops' = Append(stops, "")]_vars
    /\ [](panicked \notin {PanicCloseOfClosedQueue, PanicCloseOfClosedEvents})
    /\ [][(queueClosed => queueClosed') /\ (eventsClosed => eventsClosed')
          /\ (closer = "done" => closer' = "done")]_vars

\* Two Stop calls on a started manager: the first closed the queue, the
\* second returned the error, and the stream was closed once.
C40_Witness ==
    /\ stops = <<"", ErrNotRunning>>
    /\ queueClosed
    /\ eventsClosed
    /\ closer = "done"
    /\ Alive

\* C36: once a refresh-all request has set the refreshing flag, the flag is
\* not reset to false while a task the request put in the queue is still
\* pending or running.
C36_FlagHeldWhileTasksLive ==
    [][(model.refreshing /\ ~model'.refreshing)
         => \A id \in accepted :
              Status(id) \notin {TaskStatusPending, TaskStatusRunning}]_vars

\* C37: every refresh-all request ends: once the handler has returned and
\* every task it put in the queue is terminal, the refreshing flag becomes false
\* and no feed is marked as refreshing.
C37_RefreshAllEnds ==
    (/\ model.refreshing
     /\ UIIdle
     /\ \A id \in accepted :
          Status(id) \in {TaskStatusCompleted, TaskStatusFailed})
      ~> (~model.refreshing /\ model.refreshingFeeds = {})

\* C39: at most one timer of the automatic reload is pending.
C39_OneReloadTimer == model.timers <= 1

==========================================================================
